---- MODULE Spec2Model ----
(***************************************************************************)
(* A model of the eCFR analyzer's ingestion pipeline (backend/app):        *)
(*   ecfr_client.py  fetch_with_retry, fetch_and_cache,                    *)
(*                   get_agency_scope_map, ensure_titles_downloaded        *)
(*   xml_parser.py   the file-backed result cache, the navigator and the   *)
(*                   counter                                               *)
(*   ingest.py       run_ingestion, refresh_all_data, xml_cache            *)
(*   main.py         refresh_data_task, POST /api/refresh                  *)
(*                                                                         *)
(* Time is counted in hours.  JSON text is a sequence of tokens, so that   *)
(* json.dump / json.load / Response.json are computed, not assumed.        *)
(***************************************************************************)
EXTENDS Integers, Sequences, FiniteSets, TLC

VARIABLES
  now,        \* the wall clock (datetime.now()), in hours
  upVer,      \* upstream: title number -> its latest version (latest_amended_on)
  upFeed,     \* upstream: the title numbers titles.json lists, in order
  files,      \* DATA_DIR: path -> None or [mtime, content]
  fwCall,     \* the last fetch_with_retry call: its url and the network's answers
  fwRes,      \* what that call returned or raised
  fcCall,     \* the last fetch_and_cache call and the file it found
  fcRes,      \* what that call returned or raised, and whether it used the network
  xml_cache,  \* ingest.py: the in-process result cache, key -> (sections, words)
  cacheDir,   \* CACHE_DIR: cache key -> the text of <key>.json
  rows,       \* the agency_metrics table: agency name -> None or its row
  pc,         \* where the ingestion run is
  meta,       \* ensure_titles_downloaded: the titles of the metadata it read
  ti,         \* ensure_titles_downloaded: the index of the next title
  agency_map, \* run_ingestion: the agency -> references mapping, in order
  ai,         \* run_ingestion: the index of the agency being processed
  ri,         \* run_ingestion: the index of its next reference
  totals,     \* run_ingestion: section_total and word_total so far
  runError,   \* the exception that ended the run, or None
  report,     \* what the last finished run told its caller
  hist,       \* what the run did so far (a record kept for the properties)
  callers,    \* concurrent fetch_and_cache calls: where each is, what it writes
  agencyData, \* the agency tree get_agency_scope_map is given
  lookup,     \* the last call of the result cache or of the cached lookup
  keyed,      \* two (filename, reference) pairs and their cache keys
  agency_metrics, \* the table as the database holds it: a set of rows with ids
  sessions    \* overlapping runs: each run's position and its session

envVars == <<now, upVer, upFeed>>
probeVars == <<fwCall, fwRes, fcCall, fcRes>>
runVars == <<xml_cache, cacheDir, rows, pc, meta, ti, agency_map, ai, ri, totals,
             runError, report, hist>>
\* the state of the specifications of single units
unitVars == <<callers, agencyData, lookup, keyed, agency_metrics, sessions>>
vars == <<now, upVer, upFeed, files, fwCall, fwRes, fcCall, fcRes,
          xml_cache, cacheDir, rows, pc, meta, ti, agency_map, ai, ri, totals,
          runError, report, hist, callers, agencyData, lookup, keyed, agency_metrics,
          sessions>>

None == [none |-> TRUE]
\* no call made yet
NoCall == [nocall |-> TRUE]

(***************************************************************************)
(* Bounds of the model.                                                    *)
(***************************************************************************)
\* the clock stops at MaxNow hours
MaxNow == 48
\* the clock advances TickHours at a time
TickHours == 24
\* upstream versions of a title are 1..MaxVersion
MaxVersion == 2

(***************************************************************************)
(* JSON values and JSON text.                                              *)
(***************************************************************************)
JNum(n) == [num |-> n]
JStr(s) == [str |-> s]
JNull == [null |-> TRUE]
JArr(items) == [arr |-> items]
\* an object is its members in insertion order, each <<key, value>>
JObj(members) == [obj |-> members]

IsNum(v) == DOMAIN v = {"num"}
IsStr(v) == DOMAIN v = {"str"}
IsNull(v) == DOMAIN v = {"null"}
IsArr(v) == DOMAIN v = {"arr"}
IsObj(v) == DOMAIN v = {"obj"}

Punct(c) == [p |-> c]

RECURSIVE JsonDumps(_)
RECURSIVE DumpItems(_, _)
RECURSIVE DumpMembers(_, _)

\* json.dump(data, f): the text of a value
JsonDumps(v) ==
  IF IsArr(v) THEN <<Punct("[")>> \o DumpItems(v.arr, 1) \o <<Punct("]")>>
  ELSE IF IsObj(v) THEN <<Punct("{")>> \o DumpMembers(v.obj, 1) \o <<Punct("}")>>
  ELSE <<v>>

DumpItems(items, k) ==
  IF k > Len(items) THEN <<>>
  ELSE (IF k > 1 THEN <<Punct(",")>> ELSE <<>>)
       \o JsonDumps(items[k]) \o DumpItems(items, k + 1)

DumpMembers(members, k) ==
  IF k > Len(members) THEN <<>>
  ELSE (IF k > 1 THEN <<Punct(",")>> ELSE <<>>)
       \o <<JStr(members[k][1]), Punct(":")>>
       \o JsonDumps(members[k][2]) \o DumpMembers(members, k + 1)

\* the one element of a singleton set: Only({F(x) : x \in {e}}) is F(e) with e
\* evaluated once
Only(S) == CHOOSE x \in S : TRUE

ParseFail == [ok |-> FALSE]
Parsed(v, next) == [ok |-> TRUE, v |-> v, next |-> next]

IsTok(text, k, c) == k <= Len(text) /\ text[k] = Punct(c)

\* a dict keeps one value per key: a repeated key replaces the earlier value
PutMember(members, key, v) ==
  IF \E k \in 1..Len(members) : members[k][1] = key
  THEN [k \in 1..Len(members) |->
          IF members[k][1] = key THEN <<key, v>> ELSE members[k]]
  ELSE Append(members, <<key, v>>)

RECURSIVE ParseValue(_, _)
RECURSIVE ParseItems(_, _, _)
RECURSIVE ParseMembers(_, _, _)

\* the value that starts at token k, and the place after it
ParseValue(text, k) ==
  IF k > Len(text) THEN ParseFail
  ELSE IF text[k] = Punct("[") THEN
    (IF IsTok(text, k + 1, "]") THEN Parsed(JArr(<<>>), k + 2)
     ELSE ParseItems(text, k + 1, <<>>))
  ELSE IF text[k] = Punct("{") THEN
    (IF IsTok(text, k + 1, "}") THEN Parsed(JObj(<<>>), k + 2)
     ELSE ParseMembers(text, k + 1, <<>>))
  ELSE IF DOMAIN text[k] = {"p"} THEN ParseFail
  ELSE Parsed(text[k], k + 1)

ParseItems(text, k, acc) ==
  Only({IF ~r.ok THEN ParseFail
        ELSE IF IsTok(text, r.next, ",")
             THEN ParseItems(text, r.next + 1, Append(acc, r.v))
        ELSE IF IsTok(text, r.next, "]")
             THEN Parsed(JArr(Append(acc, r.v)), r.next + 1)
        ELSE ParseFail
        : r \in {ParseValue(text, k)}})

ParseMembers(text, k, acc) ==
  IF ~(k + 1 <= Len(text) /\ IsStr(text[k]) /\ text[k + 1] = Punct(":"))
  THEN ParseFail
  ELSE
    Only({IF ~r.ok THEN ParseFail
          ELSE IF IsTok(text, r.next, ",")
               THEN ParseMembers(text, r.next + 1, PutMember(acc, text[k].str, r.v))
          ELSE IF IsTok(text, r.next, "}")
               THEN Parsed(JObj(PutMember(acc, text[k].str, r.v)), r.next + 1)
          ELSE ParseFail
          : r \in {ParseValue(text, k + 2)}})

\* json.load(f) / Response.json(): the value of a text, or a decode error
JsonLoads(text) ==
  Only({IF r.ok /\ r.next = Len(text) + 1 THEN [ok |-> TRUE, v |-> r.v]
        ELSE [ok |-> FALSE, error |-> "JSONDecodeError"]
        : r \in {ParseValue(text, 1)}})

\* d[key] for a JSON object
HasKey(o, key) == IsObj(o) /\ \E k \in 1..Len(o.obj) : o.obj[k][1] = key
Get(o, key) == LET k == CHOOSE k \in 1..Len(o.obj) : o.obj[k][1] = key IN o.obj[k][2]

(***************************************************************************)
(* Upstream: the three feeds of www.ecfr.gov.                              *)
(***************************************************************************)
\* the titles upstream has content for
ContentTitles == {1, 2}
\* the title the feed lists without content (ingest.py: "Skip title 35 as it's missing")
MissingTitle == 35
Titles == ContentTitles \cup {MissingTitle}

\* latest_amended_on of a version
DateOf(v) == <<"2024-01-01", "2024-02-01", "2024-03-01", "2024-04-01">>[v]
VersionOf(date) ==
  IF \E v \in 1..MaxVersion : DateOf(v) = date
  THEN CHOOSE v \in 1..MaxVersion : DateOf(v) = date
  ELSE 0

\* the bytes of title t as amended on version v
XmlBytes(t, v) == [xml |-> <<t, v>>]

Ref1(t) == JObj(<< <<"title", JNum(t)>> >>)
Ref2(t, c) == JObj(<< <<"title", JNum(t)>>, <<"chapter", JStr(c)>> >>)
Ref3(t, c, p) ==
  JObj(<< <<"title", JNum(t)>>, <<"chapter", JStr(c)>>, <<"part", JStr(p)>> >>)
Agency(name, refs, children) ==
  JObj(<< <<"name", JStr(name)>>, <<"cfr_references", JArr(refs)>>,
          <<"children", JArr(children)>> >>)

\* agencies.json: two agencies with references, one with a sub-agency whose
\* references overlap its own, one with a repeated reference, a reference to
\* the missing title and a reference to a part that only a later version of its
\* title has, and one agency with no reference at all
AgenciesValue ==
  JObj(<< <<"agencies", JArr(<<
    Agency("Agriculture", <<Ref2(1, "I")>>,
           <<Agency("Forest Service", <<Ref3(1, "I", "5"), Ref1(2)>>, <<>>)>>),
    Agency("Budget", <<Ref2(MissingTitle, "I"), Ref1(2), Ref1(2), Ref3(2, "I", "2")>>,
           <<>>),
    Agency("Archives", <<>>, <<>>)
  >>)>> >>)

\* titles.json: number and latest_amended_on of every listed title
MetaValue(feed, ver) ==
  JObj(<< <<"titles", JArr([k \in 1..Len(feed) |->
    JObj(<< <<"number", JNum(feed[k])>>,
            <<"latest_amended_on",
              IF feed[k] \in ContentTitles THEN JStr(DateOf(ver[feed[k]]))
              ELSE JNull>> >>)])>> >>)

MetaUrl == [api |-> "versioner/v1/titles.json"]
AgenciesUrl == [api |-> "admin/v1/agencies.json"]
\* f'.../api/versioner/v1/full/{date}/title-{title_num}.xml'
FullUrl(date, t) == [api |-> "versioner/v1/full", date |-> date, title |-> t]

Response(status, body) == [status |-> status, body |-> body]

\* what the server answers for a url when the request reaches it
Serve(url, feed, ver) ==
  IF url = MetaUrl THEN Response(200, JsonDumps(MetaValue(feed, ver)))
  ELSE IF url = AgenciesUrl THEN Response(200, JsonDumps(AgenciesValue))
  ELSE IF url.title \in ContentTitles /\ VersionOf(url.date) \in 1..ver[url.title]
       THEN Response(200, XmlBytes(url.title, VersionOf(url.date)))
       ELSE Response(404, <<>>)

(***************************************************************************)
(* Fetch Layer: fetch_with_retry.                                          *)
(***************************************************************************)
\* what can happen to one HTTP attempt: the request is served, the connection
\* fails (a RequestException), or the server is unavailable (status 503)
NetFaults == {"served", "ConnectionError", "503"}

\* stop_after_attempt(3)
StopAfterAttempt == 3
Answers == [1..StopAfterAttempt -> NetFaults]
\* the answers the callers of the Fetch Layer are run against: served at once,
\* served at the last attempt, and never served
SomeAnswers ==
  {[n \in 1..StopAfterAttempt |-> "served"],
   [n \in 1..StopAfterAttempt |->
      IF n = StopAfterAttempt THEN "served"
      ELSE IF n = 1 THEN "ConnectionError" ELSE "503"],
   [n \in 1..StopAfterAttempt |-> IF n = 2 THEN "ConnectionError" ELSE "503"]}

\* requests.get(url, headers, timeout=30): a response, or a RequestException
RequestsGet(url, fault, feed, ver) ==
  IF fault = "ConnectionError" THEN [raised |-> fault]
  ELSE IF fault = "503" THEN Response(503, <<>>)
  ELSE Serve(url, feed, ver)

\* response.raise_for_status() raises HTTPError for 4xx and 5xx
RaisesForStatus(status) == 400 <= status /\ status < 600

\* one call of the decorated function: the response, or the exception it raises
TryFetch(url, fault, feed, ver) ==
  LET r == RequestsGet(url, fault, feed, ver) IN
  IF "raised" \in DOMAIN r THEN r
  ELSE IF RaisesForStatus(r.status) THEN [raised |-> "HTTPError", status |-> r.status]
  ELSE r

\* a stop condition that gives up one attempt early
ShouldStopEarly(n) == n >= StopAfterAttempt - 1

\* tenacity's stop condition after the n-th attempt failed
ShouldStop(n) == n >= StopAfterAttempt

\* tenacity raises RetryError from the last attempt's exception
RetryError(exc) == [raised |-> "RetryError", cause |-> exc]

RECURSIVE RetryFrom(_, _, _, _, _)
RetryFrom(url, answers, n, feed, ver) ==
  LET r == TryFetch(url, answers[n], feed, ver) IN
  IF "raised" \notin DOMAIN r THEN [ok |-> TRUE, response |-> r, attempts |-> n]
  ELSE IF ShouldStop(n) THEN [ok |-> FALSE, error |-> RetryError(r), attempts |-> n]
  ELSE RetryFrom(url, answers, n + 1, feed, ver)

\* fetch_with_retry(url, headers): answers[n] is what happens to the n-th attempt
FetchWithRetry(url, answers, feed, ver) == RetryFrom(url, answers, 1, feed, ver)

(***************************************************************************)
(* Staleness Cache: fetch_and_cache.                                       *)
(***************************************************************************)
\* str(n) for the numbers that name titles
ToStr(n) == IF n = 1 THEN "1" ELSE IF n = 2 THEN "2" ELSE IF n = 35 THEN "35" ELSE "0"

MetaPath == "titles_meta.json"
AgenciesPath == "agencies/agencies.json"
\* f"titles/title-{title_num}.xml"
TitlePath(t) == "titles/title-" \o ToStr(t) \o ".xml"
Paths == {MetaPath, AgenciesPath} \cup {TitlePath(t) : t \in Titles}

Exists(fs, path) == fs[path] # None
\* datetime.now() - datetime.fromtimestamp(path.stat().st_mtime)
FileAge(fs, path, clock) == clock - fs[path].mtime
\* a write that loses the end of the content
WriteFileTruncated(fs, path, clock, content) ==
  [fs EXCEPT ![path] = [mtime |-> clock,
                        content |-> SubSeq(content, 1, Len(content) - 1)]]

\* open(path, 'w') and a complete write: one overwrite of the whole file
WriteFile(fs, path, clock, content) ==
  [fs EXCEPT ![path] = [mtime |-> clock, content |-> content]]

\* max_age_hours=24
MaxAgeHours == 24
\* the comparison turned around
IsFreshInverted(age, maxAge) == age > maxAge

\* file_age < timedelta(hours=max_age_hours)
IsFresh(age, maxAge) == age < maxAge

\* fetch_and_cache(url, rel_path): the files afterwards, the data returned or
\* the exception raised, and the number of HTTP attempts made
FetchAndCache(fs, clock, url, path, answers, feed, ver) ==
  IF Exists(fs, path) /\ IsFresh(FileAge(fs, path, clock), MaxAgeHours)
  THEN Only({IF d.ok THEN [files |-> fs, ok |-> TRUE, data |-> d.v, attempts |-> 0]
             ELSE [files |-> fs, ok |-> FALSE, error |-> [raised |-> d.error],
                   attempts |-> 0]
             : d \in {JsonLoads(fs[path].content)}})
  ELSE LET res == FetchWithRetry(url, answers, feed, ver) IN
       IF ~res.ok
       THEN [files |-> fs, ok |-> FALSE, error |-> res.error, attempts |-> res.attempts]
       ELSE Only({IF ~d.ok
                  THEN [files |-> fs, ok |-> FALSE, error |-> [raised |-> d.error],
                        attempts |-> res.attempts]
                  ELSE [files |-> WriteFile(fs, path, clock, JsonDumps(d.v)),
                        ok |-> TRUE, data |-> d.v, attempts |-> res.attempts]
                  : d \in {JsonLoads(res.response.body)}})

(***************************************************************************)
(* The documents: xml.etree elements.  A text is a sequence of characters, *)
(* "w" for a letter and " " for white space.                               *)
(***************************************************************************)
Elem(tag, n, text, kids, tail) ==
  [tag |-> tag, n |-> n, text |-> text, kids |-> kids, tail |-> tail]

Lorem == <<"w", "w", " ", "w", " ", " ", "w", "w">>
Amet == <<" ", "w", "w", " ", "w">>
Dolor == <<"w", " ">>
Blank == <<" ", " ">>
NoText == <<>>

Section(n, text, tail) == Elem("DIV8", n, NoText, <<Elem("P", "", text, <<>>, NoText)>>, tail)

\* title 1: chapter I with parts 5 and 6, chapter II with a part 5 of its own;
\* version 2 amends part 5 of chapter I
Title1(v) ==
  Elem("ECFR", "", Blank, <<
    Elem("DIV1", "1", Dolor, <<
      Elem("DIV3", "I", NoText, <<
        Elem("DIV5", "5", Lorem,
             IF v = 1
             THEN <<Section("5.1", Lorem, Blank), Section("5.2", Amet, Dolor)>>
             ELSE <<Section("5.1", Amet, Blank), Section("5.2", Amet, Dolor),
                    Section("5.3", Lorem, NoText)>>,
             Blank),
        Elem("DIV5", "6", NoText, <<Section("6.1", Dolor, NoText)>>, Amet)
      >>, Blank),
      Elem("DIV3", "II", NoText, <<
        Elem("DIV5", "5", NoText, <<Section("5.1", Lorem, NoText)>>, NoText)
      >>, NoText)
    >>, NoText)
  >>, NoText)

\* title 2: one chapter; version 2 adds a section
Title2(v) ==
  Elem("ECFR", "", NoText, <<
    Elem("DIV1", "2", NoText, <<
      Elem("DIV3", "I", Dolor,
           IF v = 1
           THEN <<Elem("DIV5", "1", NoText, <<Section("1.1", Amet, NoText)>>, NoText)>>
           ELSE <<Elem("DIV5", "1", NoText,
                       <<Section("1.1", Amet, NoText), Section("1.2", Lorem, Amet)>>,
                       NoText),
                  Elem("DIV5", "2", NoText, <<Section("2.1", Dolor, NoText)>>, NoText)>>,
           NoText)
    >>, Blank)
  >>, NoText)

\* k text-less elements nested in one another around an element, k >= 1: the
\* outermost of them, written by the number of levels instead of level by level
Wrapped(k, inner) ==
  [tag |-> "EXTRACT", n |-> "", text |-> NoText, tail |-> NoText,
   wraps |-> k, inner |-> inner]
IsWrapped(e) == "wraps" \in DOMAIN e

\* other issues of title 1, by what they hold: chapter I with part 5 (i5
\* sections, or no part 5 when i5 < 0) and part 6, chapter II with its own part 5
\* (unless ii5 < 0), and nested elements below part 6 (when nested > 0)
DocTree(d) ==
  Elem("ECFR", "", Blank, <<
    Elem("DIV1", "1", Dolor,
      <<Elem("DIV3", "I", NoText,
          (IF d.i5 >= 0
           THEN <<Elem("DIV5", "5", Lorem,
                       [k \in 1..d.i5 |-> Section("5.x", Amet, Dolor)], Blank)>>
           ELSE <<>>)
          \o <<Elem("DIV5", "6", NoText,
                    <<Section("6.1", Dolor, NoText)>>
                    \o (IF d.nested > 0
                        THEN <<Wrapped(d.nested, Section("9.1", Lorem, NoText))>>
                        ELSE <<>>),
                    Amet)>>,
          Blank)>>
      \o (IF d.ii5 >= 0
          THEN <<Elem("DIV3", "II", NoText,
                      <<Elem("DIV5", "5", NoText,
                             [k \in 1..d.ii5 |-> Section("5.x", Lorem, NoText)],
                             NoText)>>,
                      NoText)>>
          ELSE <<>>),
      NoText)
  >>, NoText)
\* the bytes of such an issue
DocBytes(d) == [doc |-> d]

\* ET.parse(file_path).getroot() of the bytes of a title
XmlParse(bytes) ==
  IF "doc" \in DOMAIN bytes THEN [ok |-> TRUE, root |-> DocTree(bytes.doc)]
  ELSE IF "xml" \notin DOMAIN bytes THEN [ok |-> FALSE, error |-> "ParseError"]
  ELSE [ok |-> TRUE,
        root |-> IF bytes.xml[1] = 1 THEN Title1(bytes.xml[2]) ELSE Title2(bytes.xml[2])]

(***************************************************************************)
(* Structural Navigator and Counter (xml_parser.py).                       *)
(***************************************************************************)
RECURSIVE Iter(_)
RECURSIVE IterKids(_, _)
\* elem.iter(): the element and its descendants in document order
Iter(e) ==
  IF IsWrapped(e)
  THEN [i \in 1..e.wraps |-> [e EXCEPT !.wraps = e.wraps - i + 1]] \o Iter(e.inner)
  ELSE <<e>> \o IterKids(e.kids, 1)
IterKids(kids, k) ==
  IF k > Len(kids) THEN <<>> ELSE Iter(kids[k]) \o IterKids(kids, k + 1)

\* elem.iter(tag)
IterTag(e, tag) == SelectSeq(Iter(e), LAMBDA x : x.tag = tag)

RECURSIVE WordsFrom(_, _, _)
WordsFrom(text, k, inWord) ==
  IF k > Len(text) THEN 0
  ELSE IF text[k] = " " THEN WordsFrom(text, k + 1, FALSE)
  ELSE (IF inWord THEN 0 ELSE 1) + WordsFrom(text, k + 1, TRUE)

\* count_words_in_text(text): len(text.split()), 0 for no text
CountWordsInText(text) == IF text = <<>> THEN 0 ELSE WordsFrom(text, 1, FALSE)

\* "if depth > 100": the deepest level count_words descends to
MaxDepth == 100

RECURSIVE CountWords(_, _)
RECURSIVE CountKids(_, _, _)
\* a count without the guard on depth
CountWordsUnbounded(e, depth) ==
  IF IsWrapped(e)
  THEN CountWords(e.inner, depth + e.wraps)
       + (IF e.inner.tail # <<>> THEN CountWordsInText(e.inner.tail) ELSE 0)
  ELSE (IF e.text # <<>> THEN CountWordsInText(e.text) ELSE 0)
       + CountKids(e.kids, 1, depth)
\* count_words(elem, depth)
\* (through e.wraps text-less levels at once: the innermost of them, when it is
\* not past the bound, counts the element inside and that element's tail)
CountWords(e, depth) ==
  IF depth > MaxDepth THEN 0
  ELSE IF IsWrapped(e)
  THEN (IF depth + e.wraps - 1 > MaxDepth THEN 0
        ELSE CountWords(e.inner, depth + e.wraps)
             + (IF e.inner.tail # <<>> THEN CountWordsInText(e.inner.tail) ELSE 0))
  ELSE (IF e.text # <<>> THEN CountWordsInText(e.text) ELSE 0)
       + CountKids(e.kids, 1, depth)
\* a loop over the children that adds their tails only
CountKidsTailsOnly(kids, k, depth) ==
  IF k > Len(kids) THEN 0
  ELSE (IF kids[k].tail # <<>> THEN CountWordsInText(kids[k].tail) ELSE 0)
       + CountKids(kids, k + 1, depth)

\* a loop over the children that leaves their tails out
CountKidsNoTail(kids, k, depth) ==
  IF k > Len(kids) THEN 0
  ELSE CountWords(kids[k], depth + 1) + CountKids(kids, k + 1, depth)

CountKids(kids, k, depth) ==
  IF k > Len(kids) THEN 0
  ELSE CountWords(kids[k], depth + 1)
       + (IF kids[k].tail # <<>> THEN CountWordsInText(kids[k].tail) ELSE 0)
       + CountKids(kids, k + 1, depth)

\* tag_order = [('DIV1', 'title'), ('DIV3', 'chapter'), ('DIV5', 'part')]
TagOrder == << <<"DIV1", "title">>, <<"DIV3", "chapter">>, <<"DIV5", "part">> >>

\* str(value) of a level value
StrOf(v) == IF IsNum(v) THEN ToStr(v.num) ELSE IF IsStr(v) THEN v.str ELSE "None"
\* "if not value": the level is absent, null, "" or 0
Falsy(v) == IsNull(v) \/ v = JStr("") \/ v = JNum(0)
\* structure.get(key)
GetOr(o, key, default) == IF HasKey(o, key) THEN Get(o, key) ELSE default

RECURSIVE Descend(_, _, _)
\* a loop that looks for the part before the chapter
DescendReordered(current, structure, k) ==
  IF k > Len(TagOrder) THEN [found |-> TRUE, elem |-> current]
  ELSE LET lv == <<TagOrder[1], TagOrder[3], TagOrder[2]>>[k]
           value == GetOr(structure, lv[2], JNull) IN
    IF Falsy(value) THEN Descend(current, structure, k + 1)
    ELSE LET hits == SelectSeq(IterTag(current, lv[1]),
                               LAMBDA x : x.n = StrOf(value)) IN
      IF hits = <<>> THEN [found |-> FALSE]
      ELSE Descend(hits[1], structure, k + 1)

\* the loop over tag_order from level k on: the located element, or not found
Descend(current, structure, k) ==
  IF k > Len(TagOrder) THEN [found |-> TRUE, elem |-> current]
  ELSE LET value == GetOr(structure, TagOrder[k][2], JNull) IN
    IF Falsy(value) THEN Descend(current, structure, k + 1)
    ELSE LET hits == SelectSeq(IterTag(current, TagOrder[k][1]),
                               LAMBDA x : x.n = StrOf(value)) IN
      IF hits = <<>> THEN [found |-> FALSE]
      ELSE Descend(hits[1], structure, k + 1)

Count(sections, words) == [section_count |-> sections, word_count |-> words]
Zero == Count(0, 0)

\* sum(1 for _ in current_element.iter("DIV8")) and count_words(current_element)
CountElem(e) == Count(Len(IterTag(e, "DIV8")), CountWords(e, 0))

\* navigation and counting on the bytes of a document (xml_parser.py 82-143,
\* without the result cache)
CountLive(bytes, structure) ==
  IF bytes = <<>> THEN Zero
  ELSE Only({IF ~t.ok THEN Zero
             ELSE LET at == Descend(t.root, structure, 1) IN
                  IF at.found THEN CountElem(at.elem) ELSE Zero
             : t \in {XmlParse(bytes)}})

(***************************************************************************)
(* The environment: the clock and the upstream feeds.                      *)
(***************************************************************************)
FeedChoices == {<<1, 2>>, <<1, MissingTitle, 2>>}

EnvInit ==
  /\ now = 0
  /\ upVer = [t \in ContentTitles |-> 1]
  /\ upFeed \in FeedChoices
  /\ files = [p \in Paths |-> None]

Tick(hours) ==
  /\ now + hours <= MaxNow
  /\ now' = now + hours

\* upstream amends a title: its latest_amended_on advances
UpstreamAmend(t) ==
  /\ upVer[t] < MaxVersion
  /\ upVer' = [upVer EXCEPT ![t] = upVer[t] + 1]

(***************************************************************************)
(* Result Cache (xml_parser.py) and the cached lookup.                     *)
(***************************************************************************)
\* the order of the keys of a reference under sort_keys=True
KeyRank(key) ==
  IF key = "chapter" THEN 1 ELSE IF key = "part" THEN 2
  ELSE IF key = "subchapter" THEN 3 ELSE IF key = "subtitle" THEN 4 ELSE 5

RECURSIVE SortMembers(_)
\* the members of an object ordered by key
SortMembers(members) ==
  IF members = <<>> THEN <<>>
  ELSE LET k == CHOOSE i \in 1..Len(members) :
                  \A j \in 1..Len(members) : KeyRank(members[i][1]) <= KeyRank(members[j][1])
       IN <<members[k]>>
          \o SortMembers(SubSeq(members, 1, k - 1) \o SubSeq(members, k + 1, Len(members)))

\* f"data/titles/title-{title}.xml", the file name run_ingestion passes
IngestPath(t) == "data/" \o TitlePath(t)
\* DATA_DIR / "titles" / Path(filename).name
CleanPath(filename) ==
  IF \E t \in Titles : IngestPath(t) = filename
  THEN TitlePath(CHOOSE t \in Titles : IngestPath(t) = filename)
  ELSE filename

\* hashlib.md5(...).hexdigest(), taken as injective
Md5(keyData) == keyData
\* get_cache_key(filename, structure):
\* md5 of f"{filename}:{json.dumps(structure, sort_keys=True)}"
GetCacheKey(filename, structure) ==
  Md5(<<filename, ":", JsonDumps(JObj(SortMembers(structure.obj)))>>)

\* get_cached_result(cache_key): the dict of <key>.json, or None
GetCachedResult(dir, key) ==
  IF key \notin DOMAIN dir THEN None
  ELSE LET d == JsonLoads(dir[key]) IN IF d.ok THEN d.v ELSE None

\* a save that writes the two counts under each other's name
SaveToCacheSwapped(dir, key, c) ==
  [k \in DOMAIN dir \cup {key} |->
     IF k = key
     THEN JsonDumps(JObj(<< <<"section_count", JNum(c.word_count)>>,
                            <<"word_count", JNum(c.section_count)>> >>))
     ELSE dir[k]]

\* save_to_cache(cache_key, section_count, word_count)
SaveToCache(dir, key, c) ==
  [k \in DOMAIN dir \cup {key} |->
     IF k = key
     THEN JsonDumps(JObj(<< <<"section_count", JNum(c.section_count)>>,
                            <<"word_count", JNum(c.word_count)>> >>))
     ELSE dir[k]]

\* "if cached_result:": a dict with members
Truthy(cached) == cached # None /\ IsObj(cached) /\ cached.obj # <<>>

\* get_section_and_word_count_by_structure(filename, structure): the counts it
\* returns, where they come from, and the cache directory afterwards
GetSectionAndWordCount(fs, dir, filename, structure) ==
  LET key == GetCacheKey(filename, structure)
      cached == GetCachedResult(dir, key)
      path == CleanPath(filename)
  IN
  IF Truthy(cached)
  THEN (IF HasKey(cached, "section_count") /\ HasKey(cached, "word_count")
        THEN [counts |-> Count(Get(cached, "section_count").num,
                               Get(cached, "word_count").num),
              source |-> "file_cache", dir |-> dir]
        ELSE [counts |-> Zero, source |-> "error", dir |-> dir])
  ELSE IF ~Exists(fs, path) THEN [counts |-> Zero, source |-> "missing", dir |-> dir]
  ELSE IF fs[path].content = <<>> THEN [counts |-> Zero, source |-> "empty", dir |-> dir]
  ELSE LET t == XmlParse(fs[path].content) IN
    IF ~t.ok THEN [counts |-> Zero, source |-> "parse_error", dir |-> dir]
    ELSE LET at == Descend(t.root, structure, 1) IN
      IF ~at.found THEN [counts |-> Zero, source |-> "not_found", dir |-> dir]
      ELSE LET c == CountElem(at.elem) IN
        [counts |-> c, source |-> "live", dir |-> SaveToCache(dir, key, c)]

(***************************************************************************)
(* Scope Resolver: extract_all_refs and get_agency_scope_map.              *)
(***************************************************************************)
RECURSIVE ExtractAllRefs(_)
RECURSIVE ExtractKids(_, _)
\* extract_all_refs(agency): its own references, then each child's
ExtractAllRefs(agency) ==
  GetOr(agency, "cfr_references", JArr(<<>>)).arr
  \o ExtractKids(GetOr(agency, "children", JArr(<<>>)).arr, 1)
\* a walk that stops after the first child
ExtractFirstKid(kids, k) ==
  IF k > Len(kids) THEN <<>> ELSE ExtractAllRefs(kids[k])

ExtractKids(kids, k) ==
  IF k > Len(kids) THEN <<>>
  ELSE ExtractAllRefs(kids[k]) \o ExtractKids(kids, k + 1)

RECURSIVE ScopeFrom(_, _, _)
\* the loop of get_agency_scope_map over data["agencies"]
ScopeFrom(agencies, k, scope) ==
  IF k > Len(agencies) THEN scope
  ELSE LET refs == ExtractAllRefs(agencies[k]) IN
    ScopeFrom(agencies, k + 1,
              IF refs # <<>> THEN PutMember(scope, Get(agencies[k], "name").str, refs)
              ELSE scope)

\* get_agency_scope_map() on the data fetch_and_cache returned
AgencyScope(data) == ScopeFrom(Get(data, "agencies").arr, 1, <<>>)

(***************************************************************************)
(* Ingestion Orchestrator: run_ingestion, one action per step.             *)
(***************************************************************************)
AgencyNames == {"Agriculture", "Forest Service", "Budget", "Archives"}

NoHist ==
  [phases |-> <<>>, rowsAtStart |-> [a \in AgencyNames |-> None],
   filesAtSync |-> [p \in Paths |-> None], checked |-> {}, fetched |-> {},
   attempted |-> <<>>, served |-> None]

RunInit ==
  /\ xml_cache = << >>
  /\ cacheDir = << >>
  /\ rows = [a \in AgencyNames |-> None]
  /\ pc = "idle"
  /\ meta = <<>>
  /\ ti = 0
  /\ agency_map = <<>>
  /\ ai = 0
  /\ ri = 0
  /\ totals = Zero
  /\ runError = None
  /\ report = None
  /\ hist = NoHist

\* two concurrent callers of fetch_and_cache, two overlapping runs
Callers == {1, 2}
Runs == {1, 2}
\* a caller that has not called yet
IdleCaller == [pc |-> "idle"]
\* a run that has not started: no session yet
IdleSession ==
  [pc |-> "idle", ai |-> 0, existing |-> 0, pending |-> <<>>, failed |-> {},
   runs |-> 0]

UnitInit ==
  /\ callers = [c \in Callers |-> IdleCaller]
  /\ agencyData = None
  /\ lookup = NoCall
  /\ keyed = NoCall
  /\ agency_metrics = {}
  /\ sessions = [r \in Runs |-> IdleSession]

Init ==
  /\ EnvInit
  /\ RunInit
  /\ UnitInit
  /\ fwCall = NoCall /\ fwRes = NoCall
  /\ fcCall = NoCall /\ fcRes = NoCall

\* a refresh starts: POST /api/refresh, the daily job, or the startup load
StartRun ==
  /\ pc = "idle"
  /\ pc' = "sync_meta"
  /\ hist' = [NoHist EXCEPT !.rowsAtStart = rows, !.filesAtSync = files]
  /\ UNCHANGED <<unitVars, envVars, files, probeVars, xml_cache, cacheDir, rows, meta, ti,
                 agency_map, ai, ri, totals, runError, report>>

\* an exception of the sync or resolve phase that is swallowed where it is
\* raised, so that the run goes on to the next phase
AbortSwallowed(error) ==
  /\ pc' = "resolve"
  /\ runError' = error

\* an exception that leaves run_ingestion's outer try: logged, the session (if
\* any) rolled back and closed
Abort(error) ==
  /\ pc' = "report"
  /\ runError' = error

\* ensure_titles_downloaded: fetch_and_cache of titles_meta.json
SyncMeta(answers) ==
  /\ pc = "sync_meta"
  /\ \E r \in {FetchAndCache(files, now, MetaUrl, MetaPath, answers, upFeed, upVer)} :
       /\ files' = r.files
       /\ IF r.ok
          THEN /\ meta' = Get(r.data, "titles").arr
               /\ ti' = 1
               /\ IF Len(Get(r.data, "titles").arr) = 0
                  THEN /\ pc' = "resolve"
                       /\ hist' = [hist EXCEPT !.phases = Append(@, "sync")]
                  ELSE pc' = "sync_titles" /\ UNCHANGED hist
               /\ UNCHANGED runError
          ELSE Abort(r.error) /\ UNCHANGED <<meta, ti, hist>>
  /\ UNCHANGED <<unitVars, envVars, probeVars, xml_cache, cacheDir, rows, agency_map, ai, ri,
                 totals, report>>

\* "not path.exists() or (now - mtime) > timedelta(hours=24)"
NeedsDownload(fs, path, clock) ==
  ~Exists(fs, path) \/ FileAge(fs, path, clock) > MaxAgeHours

\* f'{date}' of latest_amended_on
DateText(v) == IF IsStr(v) THEN v.str ELSE "None"

\* the step the sync loop takes after title number ti
AfterTitle ==
  IF ti + 1 > Len(meta) THEN pc' = "resolve" ELSE pc' = "sync_titles"

\* ensure_titles_downloaded: one iteration of "for t in meta['titles']"
SyncTitle(answers) ==
  /\ pc = "sync_titles"
  /\ LET t == Get(meta[ti], "number").num
         date == DateText(Get(meta[ti], "latest_amended_on"))
         path == TitlePath(t)
     IN
     IF NeedsDownload(files, path, now)
     THEN \E res \in {FetchWithRetry(FullUrl(date, t), answers, upFeed, upVer)} :
            IF res.ok
            THEN /\ files' = WriteFile(files, path, now, res.response.body)
                 /\ ti' = ti + 1
                 /\ AfterTitle
                 /\ hist' = [hist EXCEPT
                      !.checked = @ \cup {t}, !.fetched = @ \cup {t},
                      !.phases = IF ti + 1 > Len(meta) THEN Append(@, "sync") ELSE @]
                 /\ UNCHANGED runError
            ELSE /\ Abort(res.error)
                 /\ hist' = [hist EXCEPT !.checked = @ \cup {t}]
                 /\ UNCHANGED <<files, ti>>
     ELSE /\ ti' = ti + 1
          /\ AfterTitle
          /\ hist' = [hist EXCEPT
               !.checked = @ \cup {t},
               !.phases = IF ti + 1 > Len(meta) THEN Append(@, "sync") ELSE @]
          /\ UNCHANGED <<files, runError>>
  /\ UNCHANGED <<unitVars, envVars, probeVars, xml_cache, cacheDir, rows, meta, agency_map, ai,
                 ri, totals, report>>

\* get_agency_scope_map(), then session = SessionLocal()
Resolve(answers) ==
  /\ pc = "resolve"
  /\ \E r \in {FetchAndCache(files, now, AgenciesUrl, AgenciesPath, answers,
                             upFeed, upVer)} :
       /\ files' = r.files
       /\ IF r.ok
          THEN \E scope \in {AgencyScope(r.data)} :
               /\ agency_map' = scope
               /\ ai' = 1
               /\ ri' = 1
               /\ totals' = Zero
               /\ pc' = IF scope = <<>> THEN "report" ELSE "refs"
               /\ hist' = [hist EXCEPT !.phases = Append(@, "resolve")]
               /\ UNCHANGED runError
          ELSE Abort(r.error) /\ UNCHANGED <<agency_map, ai, ri, totals, hist>>
  /\ UNCHANGED <<unitVars, envVars, probeVars, xml_cache, cacheDir, rows, meta, ti, report>>

\* f"{title}_{ref.get('chapter', '')}_{ref.get('part', '')}"
XmlCacheKey(ref) ==
  StrOf(Get(ref, "title")) \o "_" \o StrOf(GetOr(ref, "chapter", JStr("")))
  \o "_" \o StrOf(GetOr(ref, "part", JStr("")))

\* the title run_ingestion skips ("if title == 35")
SkippedTitle == 35

\* the counts one reference adds to its agency's totals, where they come from,
\* and both caches afterwards (ingest.py 51-84)
RefCounts(fs, cache, dir, ref) ==
  LET title == Get(ref, "title").num
      key == XmlCacheKey(ref)
  IN
  IF title = SkippedTitle
  THEN [counts |-> Zero, source |-> "skip_35", cache |-> cache, dir |-> dir]
  ELSE IF ~Exists(fs, TitlePath(title))
  THEN [counts |-> Zero, source |-> "skip_missing", cache |-> cache, dir |-> dir]
  ELSE IF key \in DOMAIN cache
  THEN [counts |-> cache[key], source |-> "xml_cache", cache |-> cache, dir |-> dir]
  ELSE Only({[counts |-> g.counts, source |-> g.source,
              cache |-> [k \in DOMAIN cache \cup {key} |->
                           IF k = key THEN g.counts ELSE cache[k]],
              dir |-> g.dir]
             : g \in {GetSectionAndWordCount(fs, dir, IngestPath(title), ref)}})

\* one iteration of "for ref in refs"
ProcessRef ==
  /\ pc = "refs"
  /\ ri <= Len(agency_map[ai][2])
  /\ \E r \in {RefCounts(files, xml_cache, cacheDir, agency_map[ai][2][ri])} :
       /\ xml_cache' = r.cache
       /\ cacheDir' = r.dir
       /\ totals' = Count(totals.section_count + r.counts.section_count,
                          totals.word_count + r.counts.word_count)
       /\ hist' = [hist EXCEPT !.served =
                     [ref |-> agency_map[ai][2][ri], source |-> r.source,
                      counts |-> r.counts]]
  /\ ri' = ri + 1
  /\ UNCHANGED <<unitVars, envVars, files, probeVars, rows, pc, meta, ti, agency_map, ai, runError,
                 report>>

\* the row run_ingestion writes: existing.* = ... or AgencyMetrics(...)
Upsert(table, name, refs, c, clock) ==
  [table EXCEPT ![name] =
     [scope |-> refs, section_count |-> c.section_count,
      word_count |-> c.word_count, updated_at |-> clock]]

\* the loop goes on to the next agency, or run_ingestion ends
NextAgency ==
  /\ ai' = ai + 1
  /\ ri' = 1
  /\ totals' = Zero
  /\ pc' = IF ai + 1 > Len(agency_map) THEN "report" ELSE "refs"

\* an agency's exception that leaves the loop instead of continuing it
AgencyErrorEndsLoop ==
  /\ pc' = "report"
  /\ UNCHANGED <<ai, ri, totals>>

\* "except Exception: ... session.rollback(); continue" (ingest.py 111-114)
OnAgencyError == NextAgency

\* the end of one agency: the upsert and session.commit(), or the exception of
\* a failed query or commit, logged and rolled back (ingest.py 88-114)
CommitAgency(dbOk) ==
  /\ pc = "refs"
  /\ ri > Len(agency_map[ai][2])
  /\ IF dbOk
     THEN /\ rows' = Upsert(rows, agency_map[ai][1], agency_map[ai][2], totals, now)
          /\ hist' = [hist EXCEPT !.attempted =
                        Append(@, <<agency_map[ai][1], "committed">>)]
          /\ NextAgency
     ELSE /\ rows' = rows
          /\ hist' = [hist EXCEPT !.attempted =
                        Append(@, <<agency_map[ai][1], "rolled_back">>)]
          /\ OnAgencyError
  /\ UNCHANGED <<unitVars, envVars, files, probeVars, xml_cache, cacheDir, meta, ti, agency_map,
                 runError, report>>

\* run_ingestion catches every exception (ingest.py 118-121): nothing reaches
\* refresh_all_data
RunIngestionRaises(error) == FALSE
\* refresh_all_data catches what run_ingestion raises (ingest.py 133-136)
RefreshAllDataRaises(error) == FALSE
\* refresh_data_task re-raises what refresh_all_data raises (main.py 107-109)
RefreshDataTaskRaises(error) == RefreshAllDataRaises(error)
\* POST /api/refresh: {"status": "success"}, or HTTP 500 (main.py 171-176)
ApiStatus(error) == IF RefreshDataTaskRaises(error) THEN "500" ELSE "success"

\* the rows without updated_at
Strip(table) ==
  [a \in DOMAIN table |->
     IF table[a] = None THEN None
     ELSE [scope |-> table[a].scope, section_count |-> table[a].section_count,
           word_count |-> table[a].word_count]]
\* the run went through both phases and committed every agency of the mapping
RunComplete ==
  /\ hist.phases = <<"sync", "resolve">>
  /\ hist.attempted = [k \in 1..Len(agency_map) |-> <<agency_map[k][1], "committed">>]

\* the run returns to its caller
Report ==
  /\ pc = "report"
  /\ pc' = "idle"
  /\ report' = [api |-> ApiStatus(runError), raised |-> RefreshDataTaskRaises(runError),
                complete |-> RunComplete]
  /\ meta' = <<>> /\ ti' = 0 /\ agency_map' = <<>> /\ ai' = 0 /\ ri' = 0
  /\ totals' = Zero
  /\ runError' = None
  /\ hist' = NoHist
  /\ UNCHANGED <<unitVars, envVars, files, probeVars, xml_cache, cacheDir, rows>>

\* the process restarts: the module-level xml_cache starts empty
Restart ==
  /\ pc = "idle"
  /\ xml_cache # << >>
  /\ xml_cache' = << >>
  /\ UNCHANGED <<unitVars, envVars, files, probeVars, cacheDir, rows, pc, meta, ti, agency_map,
                 ai, ri, totals, runError, report, hist>>

\* time passes between runs
RunTick ==
  /\ pc = "idle"
  /\ Tick(TickHours)
  /\ UNCHANGED <<unitVars, upVer, upFeed, files, probeVars, runVars>>

\* upstream amends a title between runs
RunAmend(t) ==
  /\ pc = "idle"
  /\ UpstreamAmend(t)
  /\ UNCHANGED <<unitVars, now, upFeed, files, probeVars, runVars>>

RunStep ==
  \/ StartRun
  \/ \E answers \in SomeAnswers : SyncMeta(answers)
  \/ \E answers \in SomeAnswers : SyncTitle(answers)
  \/ \E answers \in SomeAnswers : Resolve(answers)
  \/ ProcessRef
  \/ \E dbOk \in BOOLEAN : CommitAgency(dbOk)
  \/ Report

Next ==
  \/ RunStep
  \/ Restart
  \/ RunTick
  \/ \E t \in ContentTitles : RunAmend(t)

Spec == Init /\ [][Next]_vars

\* run_ingestion is sequential code whose every step returns or raises, and the
\* daily job starts a run again and again: steps of the run keep being taken.
\* (RunStep is enabled in every state, by StartRun when idle, so this is weak
\* fairness of RunStep.)
FairSpec == Init /\ [][Next]_vars /\ []<><<RunStep>>_vars

(***************************************************************************)
(* Properties of the run.                                                  *)
(***************************************************************************)
PhasesDone == hist.phases = <<"sync", "resolve">>
RefTitle(ref) == Get(ref, "title").num

\* what navigation and counting give for a reference on the documents now on
\* disk: (0, 0) for the missing title and for a document that is not there
CountOnDisk(ref) ==
  IF RefTitle(ref) = MissingTitle \/ ~Exists(files, TitlePath(RefTitle(ref)))
  THEN Zero
  ELSE CountLive(files[TitlePath(RefTitle(ref))].content, ref)

RECURSIVE SumOnDisk(_, _)
SumOnDisk(refs, k) ==
  IF k > Len(refs) THEN Zero
  ELSE LET c == CountOnDisk(refs[k])
           rest == SumOnDisk(refs, k + 1)
       IN Count(c.section_count + rest.section_count, c.word_count + rest.word_count)

\* the references the run resolved for an agency
ScopeOf(name) ==
  agency_map[CHOOSE k \in 1..Len(agency_map) : agency_map[k][1] = name][2]

Committed == {hist.attempted[k][1] : k \in {j \in 1..Len(hist.attempted) :
                                              hist.attempted[j][2] = "committed"}}

\* C1: the row a run wrote for an agency holds the sums, over every reference of
\* the agency's resolved scope (repeats counted), of the counts of that reference
\* on the documents on disk, (0, 0) for a document that is absent.
C1_RowIsSumOfScope ==
  \A name \in Committed :
    /\ rows[name] # None
    /\ rows[name].scope = ScopeOf(name)
    /\ rows[name].section_count = SumOnDisk(ScopeOf(name), 1).section_count
    /\ rows[name].word_count = SumOnDisk(ScopeOf(name), 1).word_count

\* C2: a result served from xml_cache or from the file-backed cache equals what
\* navigation and counting return on the document now on disk.
C2_CachedEqualsLive ==
  (hist.served # None /\ hist.served.source \in {"xml_cache", "file_cache"})
    => hist.served.counts = CountOnDisk(hist.served.ref)

AttemptedNames == [k \in 1..Len(hist.attempted) |-> hist.attempted[k][1]]
MapNames == [k \in 1..Len(agency_map) |-> agency_map[k][1]]

\* C3: once the sync and resolve phases completed, the run reaches its end, and
\* at its end every agency of the mapping has been attempted, in order, each
\* committed or rolled back, whatever failed on the way.
C3_EveryAgencyAttempted ==
  /\ [](pc = "refs" => <>(pc = "report"))
  /\ []((pc = "report" /\ PhasesDone) => AttemptedNames = MapNames)

\* a finished run whose first agency failed and whose second was committed
C3_Witness ==
  /\ pc = "report"
  /\ hist.attempted = << <<"Agriculture", "rolled_back">>, <<"Budget", "committed">> >>

\* C4: in a run, an agency is processed or a row differs from what it was when
\* the run started only after Corpus Sync and then the Scope Resolver completed;
\* a run whose sync or resolve phase failed has stopped, and every row is as it
\* was when the run started.
C4_NoRowsBeforePhases ==
  pc # "idle" =>
    /\ hist.phases \in {<<>>, <<"sync">>, <<"sync", "resolve">>}
    /\ (pc = "refs" \/ rows # hist.rowsAtStart \/ hist.attempted # <<>>) => PhasesDone
    /\ runError # None =>
         /\ pc = "report"
         /\ ~PhasesDone
         /\ rows = hist.rowsAtStart

\* a run that found rows of an earlier run and whose resolve phase failed
C4_Witness ==
  /\ pc = "report"
  /\ runError # None
  /\ hist.phases = <<"sync">>
  /\ rows["Budget"] # None

\* C5: a run reports success to its caller exactly when its sync and resolve
\* phases completed.
C5_SuccessIffPhasesDone ==
  [][(pc = "report" /\ pc' = "idle") => (report'.api = "success" <=> PhasesDone)]_vars

MetaNumbers == {Get(meta[k], "number").num : k \in 1..Len(meta)}

\* C6: when a sync that read the metadata feed is over, every document the feed
\* lists has been checked, whether or not a download failed.
C6_SyncChecksEveryDocument ==
  (pc \in {"resolve", "refs", "report"} /\ meta # <<>>) => MetaNumbers \subseteq hist.checked

\* the version the metadata the sync read gives for its k-th title
MetaLatest(k) ==
  XmlBytes(Get(meta[k], "number").num,
           VersionOf(DateText(Get(meta[k], "latest_amended_on"))))

\* C7: after a successful sync every listed document has an artifact; the
\* artifact was overwritten with the content of the latest version if it was
\* absent, older than the threshold or of an earlier version, and is untouched
\* otherwise.
C7_SyncedToLatest ==
  pc = "resolve" =>
    \A k \in 1..Len(meta) :
      LET path == TitlePath(Get(meta[k], "number").num)
          before == hist.filesAtSync[path]
          stale == \/ before = None
                   \/ now - before.mtime > MaxAgeHours
                   \/ before.content # MetaLatest(k)
      IN /\ Exists(files, path)
         /\ stale => files[path] = [mtime |-> now, content |-> MetaLatest(k)]
         /\ ~stale => files[path] = before

(***************************************************************************)
(* SpecFetch: calls of fetch_with_retry against the changing upstream.     *)
(***************************************************************************)
Urls ==
  {MetaUrl, AgenciesUrl}
  \cup {FullUrl(DateOf(v), t) : v \in 1..MaxVersion, t \in ContentTitles}
  \cup {FullUrl("None", MissingTitle)}

FetchInit ==
  /\ EnvInit
  /\ RunInit
  /\ UnitInit
  /\ fwCall = NoCall /\ fwRes = NoCall
  /\ fcCall = NoCall /\ fcRes = NoCall

FetchCall(url, answers) ==
  /\ fwCall' = [url |-> url, answers |-> answers, ver |-> upVer]
  /\ fwRes' = FetchWithRetry(url, answers, upFeed, upVer)
  /\ UNCHANGED <<unitVars, now, upVer, upFeed, files, fcCall, fcRes, runVars>>

FetchAmend(t) ==
  /\ UpstreamAmend(t)
  /\ UNCHANGED <<unitVars, now, upFeed, files, probeVars, runVars>>

FetchNext ==
  \/ \E url \in Urls, answers \in Answers : FetchCall(url, answers)
  \/ \E t \in ContentTitles : FetchAmend(t)

SpecFetch == FetchInit /\ [][FetchNext]_vars

\* what the network did to the n-th attempt of the last call
RawAttempt(n) == RequestsGet(fwCall.url, fwCall.answers[n], upFeed, fwCall.ver)
\* the n-th attempt met a transport error or a status outside 2xx
AttemptFailed(n) ==
  "raised" \in DOMAIN RawAttempt(n) \/ RawAttempt(n).status \notin 200..299

\* C8: a call of fetch_with_retry makes at most 3 attempts; every attempt before
\* the last one it made failed with a transport error or a non-2xx status; when
\* it returns, it returns the response of the first attempt that did not fail and
\* made no attempt after it; when it raises, three attempts failed and the error
\* carries the exception of the third.
C8_FetchWithRetry ==
  fwCall # NoCall =>
    /\ fwRes.attempts \in 1..3
    /\ \A n \in 1..(fwRes.attempts - 1) : AttemptFailed(n)
    /\ fwRes.ok =>
         /\ ~AttemptFailed(fwRes.attempts)
         /\ fwRes.response = RawAttempt(fwRes.attempts)
    /\ ~fwRes.ok =>
         /\ fwRes.attempts = 3
         /\ AttemptFailed(3)
         /\ fwRes.error.raised = "RetryError"
         /\ IF "raised" \in DOMAIN RawAttempt(3)
            THEN fwRes.error.cause = RawAttempt(3)
            ELSE fwRes.error.cause =
                   [raised |-> "HTTPError", status |-> RawAttempt(3).status]

\* a call that failed three times, first on the transport and last on a status
C8_Witness ==
  /\ fwCall # NoCall
  /\ ~fwRes.ok
  /\ fwRes.attempts = 3
  /\ fwCall.answers[1] = "ConnectionError"
  /\ fwRes.error.cause.raised = "HTTPError"

(***************************************************************************)
(* SpecCache: calls of fetch_and_cache as time passes.                     *)
(***************************************************************************)
CachedUrl(path) == IF path = MetaPath THEN MetaUrl ELSE AgenciesUrl

CacheCall(path, answers) ==
  \E r \in {FetchAndCache(files, now, CachedUrl(path), path, answers, upFeed, upVer)} :
  /\ fcCall' = [path |-> path, at |-> now, before |-> files[path]]
  /\ fcRes' = [ok |-> r.ok, attempts |-> r.attempts,
               out |-> IF r.ok THEN r.data ELSE r.error]
  /\ files' = r.files
  /\ UNCHANGED <<unitVars, now, upVer, upFeed, fwCall, fwRes, runVars>>

\* the cache is called at half the clock's step too
CacheTick ==
  /\ Tick(TickHours \div 2)
  /\ UNCHANGED <<unitVars, upVer, upFeed, files, probeVars, runVars>>

\* upstream amends title 1: titles.json changes
CacheAmend(t) ==
  /\ t = 1
  /\ UpstreamAmend(t)
  /\ UNCHANGED <<unitVars, now, upFeed, files, probeVars, runVars>>

CacheNext ==
  \/ \E path \in {MetaPath, AgenciesPath}, answers \in SomeAnswers :
       CacheCall(path, answers)
  \/ CacheTick
  \/ \E t \in ContentTitles : CacheAmend(t)

SpecCache == FetchInit /\ [][CacheNext]_vars

\* the age, at the last fetch_and_cache call, of the file it found
AgeAtCall == fcCall.at - fcCall.before.mtime
\* the last call returned the artifact that was stored, without the network
ServedFromDisk ==
  /\ fcRes.attempts = 0
  /\ fcRes.ok
  /\ JsonLoads(fcCall.before.content) = [ok |-> TRUE, v |-> fcRes.out]
  /\ files[fcCall.path] = fcCall.before

\* C9 as stated: no network access when the artifact exists and is at most
\* max_age old, and the Fetch Layer is called only when the artifact is absent
\* or more than max_age old.
C9_AsStated ==
  fcCall # NoCall =>
    /\ (fcCall.before # None /\ AgeAtCall <= MaxAgeHours) => ServedFromDisk
    /\ fcRes.attempts > 0 => (fcCall.before = None \/ AgeAtCall > MaxAgeHours)

\* C9 (amended): no network access when the artifact exists and is less than
\* max_age old: the stored artifact is returned and the file is left as it was;
\* the Fetch Layer is called only when the artifact is absent or at least
\* max_age old.
C9_FreshNoNetwork ==
  fcCall # NoCall =>
    /\ (fcCall.before # None /\ AgeAtCall < MaxAgeHours) => ServedFromDisk
    /\ fcRes.attempts > 0 => (fcCall.before = None \/ AgeAtCall >= MaxAgeHours)

\* a call that found an artifact half a day old and returned it
C9_Witness ==
  /\ fcCall # NoCall
  /\ fcCall.before # None
  /\ AgeAtCall > 0 /\ AgeAtCall < MaxAgeHours
  /\ fcRes.attempts = 0
  /\ fcRes.ok

\* the last call fetched and returned
Fetched == fcCall # NoCall /\ fcRes.ok /\ fcRes.attempts > 0

\* what a fetching call returned is what the file at its path now holds
PersistedIsReturned ==
  Fetched =>
    /\ files[fcCall.path] # None
    /\ files[fcCall.path].mtime = fcCall.at
    /\ JsonLoads(files[fcCall.path].content) = [ok |-> TRUE, v |-> fcRes.out]

\* C10: when fetch_and_cache fetched and returned, the payload it returned is
\* what the file at the cache path holds, and the next call for the same path
\* made less than max_age later returns an equal payload with no HTTP attempt.
C10_ReturnedIsPersisted ==
  [][/\ PersistedIsReturned'
     /\ (/\ Fetched
         /\ fcCall' # fcCall
         /\ fcCall'.path = fcCall.path
         /\ fcCall'.at - fcCall.at < MaxAgeHours)
        => (fcRes'.ok /\ fcRes'.attempts = 0 /\ fcRes'.out = fcRes.out)]_vars

\* a call half a day after a fetching call of the same path, served from disk
C10_Witness ==
  /\ fcCall # NoCall
  /\ fcCall.before # None
  /\ fcCall.before.mtime < fcCall.at
  /\ fcRes.ok /\ fcRes.attempts = 0
  /\ fcCall.path = AgenciesPath

(***************************************************************************)
(* SpecRace: two callers run fetch_and_cache for titles_meta.json at the   *)
(* same time, one step of the function at a time.                          *)
(***************************************************************************)
\* the tokens one write of the buffered text file hands to the system
WriteChunk == 16

\* what fills the gap when a write starts past the end of the file
Nul == Punct("NUL")

\* a write of chunk at an offset of its writer's own file object: the file keeps
\* what it holds before and after the chunk
WriteAt(content, off, chunk) ==
  LET padded == IF Len(content) < off
                THEN content \o [k \in 1..(off - Len(content)) |-> Nul]
                ELSE content
  IN SubSeq(padded, 1, off) \o chunk
     \o SubSeq(padded, off + Len(chunk) + 1, Len(padded))

\* "if full_path.exists(): ... if file_age < ...: return json.load(f)", or on to
\* the fetch
RaceCheck(c) ==
  /\ callers[c].pc = "idle"
  /\ IF Exists(files, MetaPath) /\ IsFresh(FileAge(files, MetaPath, now), MaxAgeHours)
     THEN \E d \in {JsonLoads(files[MetaPath].content)} :
            callers' = [callers EXCEPT ![c] =
                          [pc |-> "done", wrote |-> FALSE, ret |-> d]]
     ELSE callers' = [callers EXCEPT ![c] = [pc |-> "fetch"]]
  /\ UNCHANGED <<envVars, files, probeVars, runVars, agencyData, lookup, keyed,
                 agency_metrics, sessions>>

\* "res = fetch_with_retry(url, headers=HEADERS); data = res.json()"
RaceFetch(c, answers) ==
  /\ callers[c].pc = "fetch"
  /\ \E res \in {FetchWithRetry(MetaUrl, answers, upFeed, upVer)} :
       IF ~res.ok
       THEN callers' = [callers EXCEPT ![c] =
              [pc |-> "done", wrote |-> FALSE,
               ret |-> [ok |-> FALSE, error |-> res.error]]]
       ELSE \E d \in {JsonLoads(res.response.body)} :
              IF ~d.ok
              THEN callers' = [callers EXCEPT ![c] =
                     [pc |-> "done", wrote |-> FALSE, ret |-> d]]
              ELSE callers' = [callers EXCEPT ![c] =
                     [pc |-> "open", data |-> d.v, text |-> JsonDumps(d.v)]]
  /\ UNCHANGED <<envVars, files, probeVars, runVars, agencyData, lookup, keyed,
                 agency_metrics, sessions>>

\* "with open(full_path, 'w') as f": the file is truncated, the writer is at 0
RaceOpen(c) ==
  /\ callers[c].pc = "open"
  /\ files' = WriteFile(files, MetaPath, now, <<>>)
  /\ callers' = [callers EXCEPT ![c] =
       [pc |-> "write", data |-> callers[c].data, text |-> callers[c].text, off |-> 0]]
  /\ UNCHANGED <<envVars, probeVars, runVars, agencyData, lookup, keyed,
                 agency_metrics, sessions>>

\* "json.dump(data, f, indent=2)" and the close: the next chunk of the text
\* goes to the file; after the last one fetch_and_cache returns data
RaceWrite(c) ==
  /\ callers[c].pc = "write"
  /\ LET me == callers[c]
         upto == IF me.off + WriteChunk < Len(me.text)
                 THEN me.off + WriteChunk ELSE Len(me.text)
         chunk == SubSeq(me.text, me.off + 1, upto)
     IN /\ files' = WriteFile(files, MetaPath, now,
                              WriteAt(files[MetaPath].content, me.off, chunk))
        /\ callers' = [callers EXCEPT ![c] =
             IF upto = Len(me.text)
             THEN [pc |-> "done", wrote |-> TRUE, text |-> me.text,
                   ret |-> [ok |-> TRUE, v |-> me.data]]
             ELSE [me EXCEPT !.off = upto]]
  /\ UNCHANGED <<envVars, probeVars, runVars, agencyData, lookup, keyed,
                 agency_metrics, sessions>>

\* upstream amends a title while the callers run
RaceAmend(t) ==
  /\ UpstreamAmend(t)
  /\ UNCHANGED <<now, upFeed, files, probeVars, runVars, unitVars>>

\* upstream lists another title while the callers run
RaceFeed(feed) ==
  /\ Len(feed) > Len(upFeed)
  /\ upFeed' = feed
  /\ UNCHANGED <<now, upVer, files, probeVars, runVars, unitVars>>

RaceNext ==
  \/ \E c \in Callers : RaceCheck(c)
  \/ \E c \in Callers, answers \in SomeAnswers : RaceFetch(c, answers)
  \/ \E c \in Callers : RaceOpen(c)
  \/ \E c \in Callers : RaceWrite(c)
  \/ \E t \in ContentTitles : RaceAmend(t)
  \/ \E feed \in FeedChoices : RaceFeed(feed)

SpecRace == FetchInit /\ [][RaceNext]_vars

AllReturned == \A c \in Callers : callers[c].pc = "done"
Writers == {c \in Callers : callers[c].pc = "done" /\ callers[c].wrote}

\* C11: once every concurrent caller of fetch_and_cache for one path has
\* returned, and at least one of them wrote, the file holds exactly the complete
\* text one of the writers wrote.
C11_FinalFileIsOnePayload ==
  (AllReturned /\ Writers # {}) =>
    \E c \in Writers : files[MetaPath].content = callers[c].text

(***************************************************************************)
(* SpecScope: get_agency_scope_map on agency trees of every shape up to    *)
(* three levels.                                                           *)
(***************************************************************************)
\* the reference lists an agency node is given
RefLists ==
  {<<>>, <<Ref2(1, "I")>>, <<Ref1(2), Ref2(1, "I")>>, <<Ref3(1, "I", "5"), Ref1(2)>>}
\* a node that has neither "cfr_references" nor "children"
AgencyBare(name) == JObj(<< <<"name", JStr(name)>> >>)

\* the sub-agencies of the first agency: none, one, one with a sub-agency of its
\* own, or two
KidChoices ==
  {<<>>}
  \cup {<<Agency("Forest Service", r, <<>>)>> : r \in RefLists}
  \cup {<<Agency("Forest Service", r, <<Agency("Research", q, <<>>)>>)>> :
          r \in RefLists, q \in {<<>>, <<Ref1(2)>>}}
  \cup {<<Agency("Forest Service", r, <<>>), AgencyBare("Rural")>> : r \in RefLists}
  \cup {<<AgencyBare("Rural"), Agency("Forest Service", r, <<>>)>> : r \in RefLists}

\* agencies.json: a first agency with sub-agencies, then a second one, which may
\* repeat the first one's name
TreeFeeds ==
  {JObj(<< <<"agencies", JArr(<<Agency("Agriculture", r, kids), second>>)>> >>) :
     r \in RefLists, kids \in KidChoices,
     second \in {Agency("Budget", <<>>, <<>>), Agency("Budget", <<Ref1(2)>>, <<>>),
                 Agency("Agriculture", <<Ref1(2)>>, <<>>), AgencyBare("Archives")}}

\* get_agency_scope_map() when the feed serves data: res.json() of the served
\* text, then the loop over data["agencies"]
ScopeCall(data) ==
  /\ agencyData = None
  /\ agencyData' = data
  /\ \E d \in {JsonLoads(JsonDumps(data))} :
       /\ d.ok
       /\ agency_map' = AgencyScope(d.v)
  /\ UNCHANGED <<envVars, files, probeVars, xml_cache, cacheDir, rows, pc, meta, ti,
                 ai, ri, totals, runError, report, hist, callers, lookup, keyed,
                 agency_metrics, sessions>>

ScopeNext == \E data \in TreeFeeds : ScopeCall(data)

SpecScope == FetchInit /\ [][ScopeNext]_vars

RECURSIVE AllAgencies(_)
RECURSIVE AllAgenciesOf(_, _)
\* a node and its sub-agencies at every depth, parents before children, children
\* in listed order
AllAgencies(agency) ==
  <<agency>> \o AllAgenciesOf(GetOr(agency, "children", JArr(<<>>)).arr, 1)
AllAgenciesOf(kids, k) ==
  IF k > Len(kids) THEN <<>>
  ELSE AllAgencies(kids[k]) \o AllAgenciesOf(kids, k + 1)

RECURSIVE OwnRefsOf(_, _)
\* the own reference lists of a sequence of nodes, one after the other
OwnRefsOf(nodes, k) ==
  IF k > Len(nodes) THEN <<>>
  ELSE GetOr(nodes[k], "cfr_references", JArr(<<>>)).arr \o OwnRefsOf(nodes, k + 1)

\* the aggregated list of a node: its own references followed by each child's
\* aggregated list
Aggregated(agency) == OwnRefsOf(AllAgencies(agency), 1)

TopLevel == Get(agencyData, "agencies").arr
NameOf(agency) == Get(agency, "name").str
HasEntry(name) == \E k \in 1..Len(agency_map) : agency_map[k][1] = name
\* the entry the mapping has for a name
EntryOf(name) ==
  agency_map[CHOOSE k \in 1..Len(agency_map) : agency_map[k][1] = name][2]
\* the mapping has no entry for an agency whose aggregated list is empty, and
\* that list as the entry of any other
EntryIsAggregated(agency) ==
  IF Aggregated(agency) = <<>> THEN ~HasEntry(NameOf(agency))
  ELSE HasEntry(NameOf(agency)) /\ EntryOf(NameOf(agency)) = Aggregated(agency)
EveryAgency == AllAgenciesOf(TopLevel, 1)

DistinctTopNames ==
  \A i, j \in 1..Len(TopLevel) : NameOf(TopLevel[i]) = NameOf(TopLevel[j]) => i = j

ShallowDocs ==
  {[i5 |-> 1, ii5 |-> 1, nested |-> 0], [i5 |-> 2, ii5 |-> 1, nested |-> 0],
   [i5 |-> -1, ii5 |-> 1, nested |-> 0], [i5 |-> 1, ii5 |-> -1, nested |-> 0]}
\* issues whose deepest text is MaxDepth, MaxDepth + 1 and MaxDepth + 2 levels
\* below the root
DeepDocs ==
  {[i5 |-> 1, ii5 |-> 1, nested |-> MaxDepth - 5],
   [i5 |-> 1, ii5 |-> 1, nested |-> MaxDepth - 4],
   [i5 |-> 1, ii5 |-> 1, nested |-> MaxDepth - 3]}
Docs == ShallowDocs \cup DeepDocs

\* a reference to a part of title 1 that names no chapter
RefPart(p) == JObj(<< <<"title", JNum(1)>>, <<"part", JStr(p)>> >>)
\* the references the lookup is called with: no level at all, the title, and
\* chapters and parts that are there, elsewhere, or nowhere
CountRefs ==
  {JObj(<<>>), Ref1(1), Ref2(1, "I"), Ref3(1, "I", "5"), Ref3(1, "II", "5"),
   Ref3(1, "I", "7"), Ref2(1, "III"), Ref3(1, "III", "5"), Ref2(2, "I")}
\* the results save_to_cache is called with
SavedCounts == {Zero, Count(7, 70)}

\* Corpus Sync writes an issue of title 1: any issue when there is none, another
\* issue without nested elements a day later
CountPut(d) ==
  /\ IF Exists(files, TitlePath(1))
     THEN /\ "doc" \in DOMAIN files[TitlePath(1)].content
          /\ files[TitlePath(1)].content.doc \in ShallowDocs
          /\ d \in ShallowDocs
          /\ d # files[TitlePath(1)].content.doc
          /\ now = 0
          /\ Tick(TickHours)
     ELSE now' = now
  /\ files' = WriteFile(files, TitlePath(1), now', DocBytes(d))
  /\ UNCHANGED <<upVer, upFeed, probeVars, runVars, callers, agencyData, lookup, keyed,
                 agency_metrics, sessions>>

\* get_section_and_word_count_by_structure("data/titles/title-1.xml", structure)
CountCall(structure) ==
  /\ \E g \in {GetSectionAndWordCount(files, cacheDir, IngestPath(1), structure)} :
       /\ cacheDir' = g.dir
       /\ lookup' = [op |-> "call", filename |-> IngestPath(1), structure |-> structure,
                     counts |-> g.counts, source |-> g.source,
                     file |-> files[TitlePath(1)]]
  /\ UNCHANGED <<envVars, files, probeVars, xml_cache, rows, pc, meta, ti, agency_map,
                 ai, ri, totals, runError, report, hist, callers, agencyData, keyed,
                 agency_metrics, sessions>>

\* save_to_cache(get_cache_key(filename, structure), section_count, word_count)
CountSave(structure, c) ==
  /\ cacheDir' = SaveToCache(cacheDir, GetCacheKey(IngestPath(1), structure), c)
  /\ lookup' = [op |-> "save", filename |-> IngestPath(1), structure |-> structure,
                counts |-> c, source |-> "save_to_cache", file |-> files[TitlePath(1)]]
  /\ UNCHANGED <<envVars, files, probeVars, xml_cache, rows, pc, meta, ti, agency_map,
                 ai, ri, totals, runError, report, hist, callers, agencyData, keyed,
                 agency_metrics, sessions>>

CountNext ==
  \/ \E d \in Docs : CountPut(d)
  \/ \E structure \in CountRefs : CountCall(structure)

SpecCount == FetchInit /\ [][CountNext]_vars

\* SpecSave: the result cache is also given results of any value
SavedRefs == {Ref3(1, "I", "5"), Ref2(1, "III"), Ref1(1)}
SaveNext ==
  \/ \E d \in ShallowDocs : CountPut(d)
  \/ \E structure \in SavedRefs : CountCall(structure)
  \/ \E structure \in SavedRefs, c \in SavedCounts : CountSave(structure, c)

SpecSave == FetchInit /\ [][SaveNext]_vars

\* the last operation was a call that found an issue of title 1 on disk
CalledOnDoc == lookup # NoCall /\ lookup.op = "call" /\ lookup.file # None
\* the root of the issue that call found
RootAtCall == XmlParse(lookup.file.content).root

\* the levels a reference specifies, in the Navigator's order
SpecifiedLevels(structure) ==
  SelectSeq(TagOrder, LAMBDA lv : ~Falsy(GetOr(structure, lv[2], JNull)))

RECURSIVE Located(_, _, _)
\* the elements reached by matching the first k specified levels one inside the
\* other: every way of choosing, at each level, an element of the level's tag
\* with the requested identifier among the descendants of the one before
Located(root, structure, k) ==
  IF k = 0 THEN {root}
  ELSE LET lv == SpecifiedLevels(structure)[k] IN
       UNION {{x \in {Iter(e)[i] : i \in 1..Len(Iter(e))} :
                 x.tag = lv[1] /\ x.n = StrOf(Get(structure, lv[2]))}
              : e \in Located(root, structure, k - 1)}

\* some specified level of the reference has no matching element at its point
\* of the descent
SomeLevelUnmatched(root, structure) ==
  \E k \in 1..Len(SpecifiedLevels(structure)) : Located(root, structure, k) = {}

\* C13: a call for a reference of which some specified level has no matching
\* element in the document on disk returns (0, 0).
C13_UnmatchedIsZero ==
  (CalledOnDoc /\ SomeLevelUnmatched(RootAtCall, lookup.structure))
    => lookup.counts = Zero

\* a call of the Counter: the lookup found the element and counted it
Counted == CalledOnDoc /\ lookup.source = "live"
\* the element the call located
LocatedAtCall == Descend(RootAtCall, lookup.structure, 1).elem

RECURSIVE Depth(_)
RECURSIVE DepthOf(_, _)
\* the number of levels below an element
Depth(e) ==
  IF IsWrapped(e) THEN e.wraps + Depth(e.inner)
  ELSE IF e.kids = <<>> THEN 0 ELSE 1 + DepthOf(e.kids, 1)
DepthOf(kids, k) ==
  IF k = Len(kids) THEN Depth(kids[k])
  ELSE LET a == Depth(kids[k])
           b == DepthOf(kids, k + 1)
       IN IF a >= b THEN a ELSE b

\* every proper subtree of the document counts at most as many words as the
\* document root
RootCountsMost(root, rootWords) ==
  \A i \in 2..Len(Iter(root)) : rootWords >= CountWords(Iter(root)[i], 0)

\* C14 as stated: the word count of the document root is at least the word
\* count of any proper subtree, for every document.
C14_AsStated ==
  (Counted /\ lookup.structure = JObj(<<>>))
    => RootCountsMost(RootAtCall, lookup.counts.word_count)

\* C14 (amended): for a document whose deepest element is at most MaxDepth
\* levels below the root, the word count of the document root is at least the
\* word count of any proper subtree.
C14_RootCountsMost ==
  (Counted /\ lookup.structure = JObj(<<>>) /\ Depth(RootAtCall) <= MaxDepth)
    => RootCountsMost(RootAtCall, lookup.counts.word_count)

\* the root of a document exactly MaxDepth levels deep has been counted
C14_Witness ==
  /\ Counted
  /\ lookup.structure = JObj(<<>>)
  /\ Depth(RootAtCall) = MaxDepth
  /\ \E i \in 2..Len(Iter(RootAtCall)) :
       /\ lookup.counts.word_count > CountWords(Iter(RootAtCall)[i], 0)
       /\ CountWords(Iter(RootAtCall)[i], 0) > 0

RECURSIVE SumFragments(_, _, _)
\* the words of the text of the elements lo..hi of a sequence and of the tail of
\* each of them but the first of the sequence
SumFragments(nodes, lo, hi) ==
  IF lo > hi THEN 0
  ELSE IF lo = hi
  THEN CountWordsInText(nodes[lo].text)
       + (IF lo > 1 THEN CountWordsInText(nodes[lo].tail) ELSE 0)
  ELSE SumFragments(nodes, lo, (lo + hi) \div 2)
       + SumFragments(nodes, (lo + hi) \div 2 + 1, hi)

\* the counts a subtree has by the text of all its elements
FragmentCounts(e) ==
  Count(Cardinality({i \in 1..Len(Iter(e)) : Iter(e)[i].tag = "DIV8"}),
        SumFragments(Iter(e), 1, Len(Iter(e))))

\* C15 as stated: for the located subtree, word_count is the sum of the words of
\* every text fragment of the subtree (the text of every element and the tail of
\* every element but the subtree's root, at every depth), and section_count is
\* the number of DIV8 elements of the subtree.
C15_AsStated == Counted => lookup.counts = FragmentCounts(LocatedAtCall)

\* C15 (amended): the same, for a located subtree whose deepest element is at
\* most MaxDepth levels below the located element; the section count is the
\* number of DIV8 elements at any depth in every case.
C15_CountsAreFragmentSums ==
  Counted =>
    /\ lookup.counts.section_count = FragmentCounts(LocatedAtCall).section_count
    /\ Depth(LocatedAtCall) <= MaxDepth
         => lookup.counts.word_count = FragmentCounts(LocatedAtCall).word_count

\* chapter I of a document has been counted where the chapter is exactly
\* MaxDepth levels deep and has a section below 95 levels of nesting
C15_Witness ==
  /\ Counted
  /\ lookup.structure = Ref2(1, "I")
  /\ Depth(LocatedAtCall) = MaxDepth
  /\ lookup.counts.section_count = 3
  /\ lookup.counts.word_count > 0

\* the operation the last call was, "none" before the first
LookupOp == IF lookup = NoCall THEN "none" ELSE lookup.op
\* the dict save_to_cache writes for a result
ResultDict(c) ==
  JObj(<< <<"section_count", JNum(c.section_count)>>,
          <<"word_count", JNum(c.word_count)>> >>)

\* C16: after save_to_cache(key, section_count, word_count) for the key of a
\* (filename, reference) pair, get_cached_result(key) returns a result equal in
\* both fields to the one saved, and the next call of
\* get_section_and_word_count_by_structure for the pair returns the two values
\* from the cache.
C16_SaveThenGet ==
  /\ [](LookupOp = "save" =>
          GetCachedResult(cacheDir, GetCacheKey(lookup.filename, lookup.structure))
            = ResultDict(lookup.counts))
  /\ [][(/\ LookupOp = "save"
         /\ lookup'.op = "call"
         /\ lookup'.filename = lookup.filename
         /\ lookup'.structure = lookup.structure)
        => (lookup'.counts = lookup.counts /\ lookup'.source = "file_cache")]_vars

\* a saved result returned for a chapter no document has
C16_Witness ==
  /\ LookupOp = "call"
  /\ lookup.structure = Ref2(1, "III")
  /\ lookup.source = "file_cache"
  /\ lookup.counts = Count(7, 70)
  /\ lookup.file # None

(***************************************************************************)
(* SpecKeys: the loop body of run_ingestion applied to references whose    *)
(* in-process keys and file-cache keys are compared.                       *)
(***************************************************************************)
\* a reference whose chapter is null
RefNullChapter == JObj(<< <<"title", JNum(1)>>, <<"chapter", JNull>> >>)
\* the references processed: plain ones, a null chapter and a chapter named
\* "None", and two whose chapter and part hold the separator of the key
KeyRefs ==
  {Ref1(1), Ref2(1, "I"), RefNullChapter, Ref2(1, "None"),
   Ref3(1, "I_5", ""), Ref3(1, "I", "5_")}
\* the issues of title 1 the references are counted in
KeyDocs == {[i5 |-> 1, ii5 |-> 1, nested |-> 0], [i5 |-> 2, ii5 |-> 1, nested |-> 0]}

\* the pair that produced the entry under each in-process key
MemOwners == IF keyed = NoCall THEN << >> ELSE keyed.mem
\* the pair that produced the file under each file-cache key
FileOwners == IF keyed = NoCall THEN << >> ELSE keyed.file
\* a mapping with one key set
Put(f, key, value) == [k \in DOMAIN f \cup {key} |-> IF k = key THEN value ELSE f[k]]

\* one iteration of "for ref in refs" for a reference to title 1
KeyRef(ref) ==
  /\ \E r \in {RefCounts(files, xml_cache, cacheDir, ref)} :
     \E pair \in {<<IngestPath(Get(ref, "title").num), ref>>} :
     \E owner \in {IF r.source = "xml_cache" THEN MemOwners[XmlCacheKey(ref)]
                   ELSE IF r.source = "file_cache"
                   THEN FileOwners[GetCacheKey(pair[1], ref)]
                   ELSE pair} :
       /\ xml_cache' = r.cache
       /\ cacheDir' = r.dir
       /\ lookup' = [op |-> "ref", filename |-> pair[1], structure |-> ref,
                     counts |-> r.counts, source |-> r.source, owner |-> owner,
                     file |-> files[TitlePath(1)]]
       /\ keyed' =
            IF r.source \in {"skip_35", "skip_missing"} THEN keyed
            ELSE [mem |-> IF r.source = "xml_cache" THEN MemOwners
                          ELSE Put(MemOwners, XmlCacheKey(ref), owner),
                  file |-> IF r.source = "live"
                           THEN Put(FileOwners, GetCacheKey(pair[1], ref), pair)
                           ELSE FileOwners]
  /\ UNCHANGED <<envVars, files, probeVars, rows, pc, meta, ti, agency_map,
                 ai, ri, totals, runError, report, hist, callers, agencyData,
                 agency_metrics, sessions>>

\* the process restarts: the module-level xml_cache starts empty
KeyRestart ==
  /\ xml_cache # << >>
  /\ xml_cache' = << >>
  /\ keyed' = [mem |-> << >>, file |-> FileOwners]
  /\ UNCHANGED <<envVars, files, probeVars, cacheDir, rows, pc, meta, ti, agency_map,
                 ai, ri, totals, runError, report, hist, callers, agencyData, lookup,
                 agency_metrics, sessions>>

KeyNext ==
  \/ \E d \in KeyDocs : CountPut(d)
  \/ \E ref \in KeyRefs : KeyRef(ref)
  \/ KeyRestart

SpecKeys == Init /\ [][KeyNext]_vars

\* the value the Navigator uses for a level: none when "not value", else str(value)
UsedLevel(ref, key) ==
  LET value == GetOr(ref, key, JNull)
  IN IF Falsy(value) THEN None ELSE JStr(StrOf(value))
\* two (filename, reference) pairs that name the same document and the same
\* value for every level the Navigator uses
SamePair(p, q) ==
  /\ CleanPath(p[1]) = CleanPath(q[1])
  /\ \A key \in {"title", "chapter", "part"} : UsedLevel(p[2], key) = UsedLevel(q[2], key)

\* C17: a result either cache returns for a (filename, reference) pair was
\* stored for that pair: pairs that differ in the document or in a level value
\* the Navigator uses never share the hashed file-cache key nor the in-process
\* key built from title, chapter and part.
C17_CachedResultIsOwn ==
  (LookupOp = "ref" /\ lookup.source \in {"xml_cache", "file_cache"})
    => SamePair(lookup.owner, <<lookup.filename, lookup.structure>>)

(***************************************************************************)
(* SpecDb: the persistence steps of run_ingestion, for two runs that may   *)
(* overlap, each with its own session on the one agency_metrics table.     *)
(***************************************************************************)
\* each run starts at most MaxRuns times
MaxRuns == 2
\* datetime.now() is read at most MaxClock times
MaxClock == 4
\* the agencies of the scope map, in order
DbAgencies == <<"Agriculture", "Budget">>
\* the totals a run has summed for an agency
DbTotals == {Count(1, 3)}

\* the row of the table with a name, as a set
RowsNamed(table, name) == {row \in table : row.name = name}
\* the id the database gives a new row
NextId(table) ==
  IF table = {} THEN 1
  ELSE 1 + (CHOOSE i \in {row.id : row \in table} : \A row \in table : row.id <= i)

\* a table without the constraint on name
UniqueNameUnchecked(table, name) == TRUE
\* name = Column(String, unique=True): a new row's name is in no row
UniqueName(table, name) == RowsNamed(table, name) = {}

RECURSIVE Flush(_, _, _)
\* session.commit() flushes the pending changes in order: the UPDATE of the row
\* queried or the INSERT of the new one; an INSERT of a name the table has raises
Flush(table, pending, k) ==
  IF k > Len(pending) THEN [ok |-> TRUE, table |-> table]
  ELSE LET u == pending[k]
           row == [id |-> IF u.kind = "insert" THEN NextId(table) ELSE u.id,
                   name |-> u.name, section_count |-> u.counts.section_count,
                   word_count |-> u.counts.word_count, updated_at |-> u.updated_at]
       IN IF u.kind = "insert"
          THEN (IF UniqueName(table, u.name)
                THEN Flush(table \cup {row}, pending, k + 1)
                ELSE [ok |-> FALSE, error |-> "IntegrityError"])
          ELSE Flush({r \in table : r.id # u.id} \cup {row}, pending, k + 1)

\* a rollback that leaves the pending changes in the session
RollbackKeepsPending(session) == session
\* session.rollback(): the pending changes are discarded
Rollback(session) == [session EXCEPT !.pending = <<>>]

\* "continue", or the end of the loop and session.close()
NextDbAgency(session) ==
  IF session.ai + 1 > Len(DbAgencies)
  THEN [session EXCEPT !.pc = "idle", !.ai = 0, !.existing = 0]
  ELSE [session EXCEPT !.pc = "query", !.ai = @ + 1, !.existing = 0]

\* session = SessionLocal() and the first agency of the loop
DbStart(r) ==
  /\ sessions[r].pc = "idle"
  /\ sessions[r].runs < MaxRuns
  /\ sessions' = [sessions EXCEPT ![r] =
                    [@ EXCEPT !.pc = "query", !.ai = 1, !.runs = @ + 1]]
  /\ UNCHANGED <<envVars, files, probeVars, runVars, callers, agencyData, lookup,
                 keyed, agency_metrics>>

\* existing = session.query(AgencyMetrics).filter_by(name=name).first(), or the
\* exception it raises, logged and rolled back
DbQuery(r, dbOk) ==
  /\ sessions[r].pc = "query"
  /\ sessions' = [sessions EXCEPT ![r] =
       IF dbOk
       THEN LET found == RowsNamed(agency_metrics, DbAgencies[sessions[r].ai])
            IN [@ EXCEPT !.pc = "assign",
                         !.existing = IF found = {} THEN 0
                                      ELSE (CHOOSE row \in found : TRUE).id]
       ELSE NextDbAgency(Rollback(@))]
  /\ UNCHANGED <<envVars, files, probeVars, runVars, callers, agencyData, lookup,
                 keyed, agency_metrics>>

\* "if existing: existing.* = ...; else: session.add(AgencyMetrics(...))", with
\* updated_at = datetime.now()
DbAssign(r, c) ==
  /\ sessions[r].pc = "assign"
  /\ now < MaxClock
  /\ now' = now + 1
  /\ sessions' = [sessions EXCEPT ![r] =
       [@ EXCEPT !.pc = "commit",
                 !.pending = Append(@,
                    [kind |-> IF sessions[r].existing = 0 THEN "insert" ELSE "update",
                     id |-> sessions[r].existing,
                     name |-> DbAgencies[sessions[r].ai],
                     counts |-> c, updated_at |-> now'])]]
  /\ UNCHANGED <<upVer, upFeed, files, probeVars, runVars, callers, agencyData, lookup,
                 keyed, agency_metrics>>

\* session.commit(), or the exception it raises, logged and rolled back
DbCommit(r, dbOk) ==
  /\ sessions[r].pc = "commit"
  /\ \E f \in {Flush(agency_metrics, sessions[r].pending, 1)} :
       IF dbOk /\ f.ok
       THEN /\ agency_metrics' = f.table
            /\ sessions' = [sessions EXCEPT ![r] =
                              NextDbAgency([@ EXCEPT !.pending = <<>>])]
       ELSE /\ agency_metrics' = agency_metrics
            /\ sessions' = [sessions EXCEPT ![r] =
                 NextDbAgency(Rollback(
                   [@ EXCEPT !.failed = @ \cup
                      {sessions[r].pending[Len(sessions[r].pending)]}]))]
  /\ UNCHANGED <<envVars, files, probeVars, runVars, callers, agencyData, lookup,
                 keyed>>

DbNext ==
  \E r \in Runs :
    \/ DbStart(r)
    \/ \E dbOk \in BOOLEAN : DbQuery(r, dbOk)
    \/ \E c \in DbTotals : DbAssign(r, c)
    \/ \E dbOk \in BOOLEAN : DbCommit(r, dbOk)

\* the state after construction, upstream serving its usual feed
DbInit == Init /\ upFeed = <<1, 2>>

SpecDb == DbInit /\ [][DbNext]_vars

\* the changes whose commit failed, over all runs
FailedWrites == UNION {sessions[r].failed : r \in Runs}
\* run r's commit fails in this step
CommitFails(r) ==
  /\ sessions[r].pc = "commit"
  /\ sessions'[r].failed # sessions[r].failed
\* run r's commit succeeds in this step
CommitSucceeds(r) ==
  /\ sessions[r].pc = "commit"
  /\ sessions'[r].pc # "commit"
  /\ sessions'[r].failed = sessions[r].failed

\* C18: when the write of one agency's row fails, the pending write is rolled
\* back (the table is as before the attempt and the failed change never reaches
\* it later), the rows committed for earlier agencies stay, and the run goes on
\* to the next agency.
C18_FailedWriteRolledBack ==
  /\ [](\A row \in agency_metrics : \A u \in FailedWrites :
          row.updated_at # u.updated_at)
  /\ [][\A r \in Runs : CommitFails(r) =>
          /\ agency_metrics' = agency_metrics
          /\ sessions'[r].pending = <<>>
          /\ IF sessions[r].ai < Len(DbAgencies)
             THEN sessions'[r].pc = "query" /\ sessions'[r].ai = sessions[r].ai + 1
             ELSE sessions'[r].pc = "idle"]_vars

\* in one run the write of the first agency was committed, the write of the
\* second failed, and the run went on; the first row is in the table
C18_Witness ==
  \E r \in Runs : \E u \in sessions[r].failed : \E row \in agency_metrics :
    /\ u.name = DbAgencies[2]
    /\ row.name = DbAgencies[1]
    /\ row.updated_at = u.updated_at - 1
    /\ sessions[r].pc = "idle"
    /\ sessions[r].pending = <<>>

\* C19: the table holds at most one row per agency name after any steps of
\* runs, overlapping ones included; a committed write updates the row that has
\* the name when there is one and adds a row only when there is none.
C19_OneRowPerName ==
  /\ [](\A a \in agency_metrics : \A b \in agency_metrics : a.name = b.name => a = b)
  /\ [][\A r \in Runs : CommitSucceeds(r) =>
          LET name == DbAgencies[sessions[r].ai]
          IN IF RowsNamed(agency_metrics, name) = {}
             THEN agency_metrics' = agency_metrics \cup RowsNamed(agency_metrics', name)
             ELSE /\ {row.id : row \in agency_metrics'} = {row.id : row \in agency_metrics}
                  /\ Cardinality(agency_metrics') = Cardinality(agency_metrics)]_vars

\* two overlapping runs both found no row for an agency and both added one: one
\* commit succeeded, the other was refused
C19_Witness ==
  \E r \in Runs : \E u \in sessions[r].failed : \E row \in agency_metrics :
    /\ u.kind = "insert"
    /\ row.name = u.name
    /\ row.updated_at < u.updated_at
    /\ Cardinality(RowsNamed(agency_metrics, u.name)) = 1

\* C20: for each agency, updated_at of its row strictly increases from one
\* successful write of the row to the next.
C20_UpdatedAtIncreases ==
  [][\A r \in Runs : CommitSucceeds(r) =>
       \A old \in RowsNamed(agency_metrics, DbAgencies[sessions[r].ai]) :
       \A new \in RowsNamed(agency_metrics', DbAgencies[sessions[r].ai]) :
         new.updated_at > old.updated_at]_vars

(***************************************************************************)
(* SpecTree: extract_all_refs on an agency tree held in memory, with what  *)
(* the call does to the tree.                                              *)
(***************************************************************************)
\* the in-memory tree is resolved at most MaxResolves times
MaxResolves == 2

\* agency[key] = value on a dict that has the key
SetKey(o, key, value) ==
  JObj([k \in 1..Len(o.obj) |-> IF o.obj[k][1] = key THEN <<key, value>> ELSE o.obj[k]])

RECURSIVE ExtractInPlace(_)
RECURSIVE ExtendFromKids(_, _, _)
\* "for child in agency.get('children', [])": refs.extend(extract_all_refs(child)),
\* with the children as the calls leave them
ExtendFromKids(kids, k, refs) ==
  IF k > Len(kids) THEN [refs |-> refs, kids |-> kids]
  ELSE LET r == ExtractInPlace(kids[k])
       IN ExtendFromKids([kids EXCEPT ![k] = r.tree], k + 1, refs \o r.refs)
\* extract_all_refs(agency): the list it returns and the node afterwards. refs is
\* the node's own list object when the node has "cfr_references", so extend()
\* changes that list; without the key it is a new list
ExtractInPlace(agency) ==
  LET r == ExtendFromKids(GetOr(agency, "children", JArr(<<>>)).arr, 1,
                          GetOr(agency, "cfr_references", JArr(<<>>)).arr)
      withKids == IF HasKey(agency, "children")
                  THEN SetKey(agency, "children", JArr(r.kids)) ELSE agency
  IN [refs |-> r.refs,
      tree |-> IF HasKey(agency, "cfr_references")
               THEN SetKey(withKids, "cfr_references", JArr(r.refs)) ELSE withKids]

RECURSIVE ScopeInPlace(_, _, _)
\* the loop of get_agency_scope_map over data["agencies"]: the mapping and the
\* agencies afterwards
ScopeInPlace(agencies, k, scope) ==
  IF k > Len(agencies) THEN [scope |-> scope, agencies |-> agencies]
  ELSE LET r == ExtractInPlace(agencies[k]) IN
    ScopeInPlace([agencies EXCEPT ![k] = r.tree], k + 1,
                 IF r.refs # <<>>
                 THEN PutMember(scope, Get(agencies[k], "name").str, r.refs)
                 ELSE scope)

\* data = res.json(): the tree is in memory
TreeLoad(data) ==
  /\ agencyData = None
  /\ \E d \in {JsonLoads(JsonDumps(data))} :
       /\ d.ok
       /\ agencyData' = d.v
  /\ UNCHANGED <<envVars, files, probeVars, runVars, callers, lookup, keyed,
                 agency_metrics, sessions>>

\* the in-memory tree is resolved: extract_all_refs on each top-level agency
TreeResolve ==
  /\ agencyData # None
  /\ (IF keyed = NoCall THEN 0 ELSE keyed.n) < MaxResolves
  /\ \E r \in {ScopeInPlace(Get(agencyData, "agencies").arr, 1, <<>>)} :
       /\ agency_map' = r.scope
       /\ agencyData' = SetKey(agencyData, "agencies", JArr(r.agencies))
       /\ keyed' = [n |-> IF keyed = NoCall THEN 1 ELSE keyed.n + 1,
                    first |-> IF keyed = NoCall THEN r.scope ELSE keyed.first,
                    last |-> r.scope,
                    before |-> agencyData]
  /\ UNCHANGED <<envVars, files, probeVars, xml_cache, cacheDir, rows, pc, meta, ti,
                 ai, ri, totals, runError, report, hist, callers, lookup,
                 agency_metrics, sessions>>

TreeNext ==
  \/ \E data \in TreeFeeds : TreeLoad(data)
  \/ TreeResolve

SpecTree == FetchInit /\ [][TreeNext]_vars

\* C27: extract_all_refs leaves the tree it is given unchanged, so resolving the
\* same in-memory tree a second time yields the same reference list for every
\* agency as the first time.
C27_TreeUnchanged ==
  keyed # NoCall =>
    /\ agencyData = keyed.before
    /\ keyed.last = keyed.first

RECURSIVE DepthsOf(_, _)
RECURSIVE DepthsOfKids(_, _, _)
\* the depth below the located element of each element of Iter(e), in the same
\* order, e itself being at depth d
DepthsOf(e, d) ==
  IF IsWrapped(e)
  THEN [i \in 1..e.wraps |-> d + i - 1] \o DepthsOf(e.inner, d + e.wraps)
  ELSE <<d>> \o DepthsOfKids(e.kids, 1, d + 1)
DepthsOfKids(kids, k, d) ==
  IF k > Len(kids) THEN <<>>
  ELSE DepthsOf(kids[k], d) \o DepthsOfKids(kids, k + 1, d)

RECURSIVE SumWithin(_, _, _, _)
\* the words of the text of the elements lo..hi that are at most MaxDepth levels
\* down, and of the tails of those whose parent is
SumWithin(nodes, depths, lo, hi) ==
  IF lo > hi THEN 0
  ELSE IF lo = hi
  THEN (IF depths[lo] <= MaxDepth THEN CountWordsInText(nodes[lo].text) ELSE 0)
       + (IF lo > 1 /\ depths[lo] <= MaxDepth + 1
          THEN CountWordsInText(nodes[lo].tail) ELSE 0)
  ELSE SumWithin(nodes, depths, lo, (lo + hi) \div 2)
       + SumWithin(nodes, depths, (lo + hi) \div 2 + 1, hi)
\* the words of a subtree down to MaxDepth levels
WordsWithin(e) == SumWithin(Iter(e), DepthsOf(e, 0), 1, Len(Iter(e)))

\* C26: the word count goes no deeper than MaxDepth (100) levels below the
\* located node: an element deeper than that adds nothing for its text nor for
\* what is below it, the rest of the subtree is counted as without it, and the
\* count ends with a result that is not negative.
C26_DepthBounded ==
  Counted =>
    /\ lookup.counts.word_count = WordsWithin(LocatedAtCall)
    /\ lookup.counts.word_count >= 0

\* the title of a document was counted whose section 9.1 has its heading and
\* paragraph 101 levels down: they are left out, the rest is counted
C26_Witness ==
  /\ Counted
  /\ lookup.structure = Ref1(1)
  /\ Depth(LocatedAtCall) > MaxDepth
  /\ lookup.counts.word_count > 0
  /\ lookup.counts.word_count < FragmentCounts(LocatedAtCall).word_count

\* the references the Navigator is followed on: a part without its chapter, the
\* same part in either chapter, a chapter, a chapter that is not there, a falsy
\* chapter, and another title
NavRefs ==
  {RefPart("5"), Ref3(1, "I", "5"), Ref3(1, "II", "5"), Ref2(1, "II"),
   Ref3(1, "III", "5"), Ref3(1, "", "6"), Ref1(2)}

NavNext ==
  \/ \E d \in ShallowDocs : CountPut(d)
  \/ \E structure \in NavRefs : CountCall(structure)

SpecNav == Init /\ [][NavNext]_vars

\* the first of the elements lo..hi of a document, in document order, with a tag
\* and an identifier; 0 when there is none
FirstMatch(nodes, lo, hi, tag, n) ==
  LET hits == {i \in lo..hi : nodes[i].tag = tag /\ nodes[i].n = n}
  IN IF hits = {} THEN 0 ELSE CHOOSE i \in hits : \A j \in hits : i <= j
\* the last element of the subtree of element i, the elements of a document
\* being in document order
SubtreeEnd(nodes, i) == i + Len(Iter(nodes[i])) - 1

RECURSIVE NavFrom(_, _, _, _)
\* the element the levels from k on lead to from element at: title, then
\* chapter, then part, each one looked for in the subtree of the element before,
\* a level without a value leaving the element as it is; 0 when a level has no
\* match
NavFrom(nodes, structure, k, at) ==
  IF k > 3 THEN at
  ELSE LET lv == << <<"DIV1", "title">>, <<"DIV3", "chapter">>, <<"DIV5", "part">> >>[k]
           value == GetOr(structure, lv[2], JNull)
       IN IF Falsy(value) THEN NavFrom(nodes, structure, k + 1, at)
          ELSE LET m == FirstMatch(nodes, at, SubtreeEnd(nodes, at), lv[1], StrOf(value))
               IN IF m = 0 THEN 0 ELSE NavFrom(nodes, structure, k + 1, m)
\* the element a lookup has to reach in the document it was called on
NavAtCall == NavFrom(Iter(RootAtCall), lookup.structure, 1, 1)

\* C25: the Navigator takes the levels in the order title, chapter, part; at
\* each level the reference specifies it takes the first element in document
\* order, inside the node matched at the level before, whose identifier is the
\* requested value as a string, never one outside that node; a level the
\* reference does not specify leaves the node unchanged. The counts returned
\* are those of the element so reached, (0, 0) when a level has no match.
C25_CoarseToFine ==
  (CalledOnDoc /\ lookup.source \in {"live", "not_found"}) =>
    IF NavAtCall = 0
    THEN lookup.source = "not_found" /\ lookup.counts = Zero
    ELSE /\ lookup.source = "live"
         /\ LocatedAtCall = Iter(RootAtCall)[NavAtCall]
         /\ lookup.counts = CountElem(Iter(RootAtCall)[NavAtCall])

\* part 5 of chapter II was counted in a document where another part 5, with
\* other counts, comes first in document order, outside chapter II
C25_Witness ==
  /\ CalledOnDoc
  /\ lookup.source = "live"
  /\ lookup.structure = Ref3(1, "II", "5")
  /\ \E i \in 1..(NavAtCall - 1) :
       /\ Iter(RootAtCall)[i].tag = "DIV5"
       /\ Iter(RootAtCall)[i].n = "5"
       /\ CountElem(Iter(RootAtCall)[i]) # lookup.counts

\* the sync loop is at the known-missing title
AtMissingTitle ==
  /\ pc = "sync_titles"
  /\ Get(meta[ti], "number").num = MissingTitle

\* C24: the document known to be missing (listed in the feed, without content)
\* is a permanent skip: no run issues a fetch for it, and the run goes on past
\* it to the rest of the sync.
C24_MissingIsSkipped ==
  [][AtMissingTitle =>
       /\ ~NeedsDownload(files, TitlePath(MissingTitle), now)
       /\ runError' = None
       /\ pc' \in {"sync_titles", "resolve"}]_vars

(***************************************************************************)
(* SpecSkip: the loop body of run_ingestion on references whose document   *)
(* is absent, is the known-missing one, or does not parse.                 *)
(***************************************************************************)
\* bytes that are not a well-formed document
BadBytes == [bad |-> TRUE]
\* references to a document on disk, to one that is not, and to title 35
SkipRefs == {Ref2(1, "I"), Ref1(1), Ref1(2), Ref2(SkippedTitle, "I")}

\* Corpus Sync downloads title 1, absent or more than a day old, and writes what
\* the server sent, which does not parse
SkipPutBad ==
  /\ IF Exists(files, TitlePath(1))
     THEN FileAge(files, TitlePath(1), now) > MaxAgeHours ELSE TRUE
  /\ files' = WriteFile(files, TitlePath(1), now, BadBytes)
  /\ UNCHANGED <<now, upVer, upFeed, probeVars, runVars, callers, agencyData, lookup,
                 keyed, agency_metrics, sessions>>

SkipNext ==
  \/ \E d \in KeyDocs : CountPut(d)
  \/ SkipPutBad
  \/ \E ref \in SkipRefs : KeyRef(ref)
  \/ KeyRestart
  \/ RunTick

SpecSkip == DbInit /\ [][SkipNext]_vars

\* the title the last reference names
TitleAtRef == RefTitle(lookup.structure)
\* the document of that title when the reference was processed (title 1 is the
\* only one ever on disk here)
DocAtRef == IF TitleAtRef = 1 THEN lookup.file ELSE None
\* the reference processed last names a document that is absent, is the
\* known-missing one, or does not parse
SkipCase ==
  /\ LookupOp = "ref"
  /\ \/ TitleAtRef = SkippedTitle
     \/ DocAtRef = None
     \/ ~XmlParse(DocAtRef.content).ok

\* C23: a reference whose document is absent from the corpus, is the
\* known-missing document, or has malformed content adds (0, 0) to its agency's
\* totals, and the loop goes on.
C23_SkipAddsZero == SkipCase => lookup.counts = Zero

(***************************************************************************)
(* Runs against upstream data that no longer change once a row is written  *)
(* (ingest.py 28-116).                                                     *)
(***************************************************************************)
\* every top-level agency of the upstream tree has a row
AllRows ==
  \A k \in DOMAIN AgencyScope(AgenciesValue) :
    rows[AgencyScope(AgenciesValue)[k][1]] # None

\* upstream amends a title before the first row is written, never afterwards
TwiceAmend(t) ==
  /\ \A a \in DOMAIN rows : rows[a] = None
  /\ RunAmend(t)

TwiceNext ==
  \/ RunStep
  \/ Restart
  \/ RunTick
  \/ \E t \in ContentTitles : TwiceAmend(t)

SpecTwice == DbInit /\ [][TwiceNext]_vars

\* C21: two runs in succession against unchanged upstream data (the same feed,
\* documents and agency tree from the start of the first run on), the first one
\* complete: no step of the second run changes the name, scope, section_count
\* or word_count of a row the first run left.
C21_SecondRunSameRows ==
  [][(/\ report # None
      /\ pc # "idle"
      /\ AllRows)
       => IF report.complete THEN Strip(rows') = Strip(rows) ELSE TRUE]_vars

(***************************************************************************)
(* SpecOverlap: two runs of run_ingestion in two processes (the server and *)
(* a second worker or "python -m app.ingest"), on one data directory and   *)
(* one database, each with its own xml_cache and session.                  *)
(***************************************************************************)
\* the issue of title 1 upstream serves to both runs
OvDoc == [i5 |-> 1, ii5 |-> 1, nested |-> 0]
\* get_agency_scope_map(): the same mapping in both runs
OvScope == << <<"Agriculture", <<Ref2(1, "I")>> >>, <<"Budget", <<Ref1(1)>> >> >>
\* open(path, 'wb'): the file is there, new and empty, and does not parse
OpenWb(fs, path, clock) == WriteFile(fs, path, clock, BadBytes)

\* run_ingestion starts in process r
OvStart(r) ==
  /\ callers[r].pc = "idle"
  /\ callers' = [callers EXCEPT ![r] =
                   [pc |-> "check", ai |-> 0, mem |-> << >>, totals |-> Zero,
                    existing |-> 0]]
  /\ UNCHANGED <<envVars, files, probeVars, runVars, agencyData, lookup, keyed,
                 agency_metrics, sessions>>

\* "if not path.exists() or age > 24 hours", and fetch_with_retry(url) when so
OvCheck(r) ==
  /\ callers[r].pc = "check"
  /\ callers' = [callers EXCEPT ![r].pc =
                   IF Exists(files, TitlePath(1))
                   THEN (IF FileAge(files, TitlePath(1), now) > MaxAgeHours
                         THEN "open" ELSE "count")
                   ELSE "open",
                 ![r].ai = 1]
  /\ UNCHANGED <<envVars, files, probeVars, runVars, agencyData, lookup, keyed,
                 agency_metrics, sessions>>

\* with open(path, 'wb') as f
OvOpen(r) ==
  /\ callers[r].pc = "open"
  /\ files' = OpenWb(files, TitlePath(1), now)
  /\ callers' = [callers EXCEPT ![r].pc = "write"]
  /\ UNCHANGED <<envVars, probeVars, runVars, agencyData, lookup, keyed,
                 agency_metrics, sessions>>

\* f.write(res.content), and the file is closed
OvWrite(r) ==
  /\ callers[r].pc = "write"
  /\ files' = WriteFile(files, TitlePath(1), now, DocBytes(OvDoc))
  /\ callers' = [callers EXCEPT ![r].pc = "count"]
  /\ UNCHANGED <<envVars, probeVars, runVars, agencyData, lookup, keyed,
                 agency_metrics, sessions>>

\* "for ref in refs" for the agency's one reference, with the process's own
\* xml_cache and the shared data/cache
OvCount(r) ==
  /\ callers[r].pc = "count"
  /\ \E c \in {RefCounts(files, callers[r].mem, cacheDir,
                          OvScope[callers[r].ai][2][1])} :
       /\ cacheDir' = c.dir
       /\ callers' = [callers EXCEPT ![r].pc = "query", ![r].mem = c.cache,
                                     ![r].totals = c.counts]
  /\ UNCHANGED <<envVars, files, probeVars, xml_cache, rows, pc, meta, ti, agency_map,
                 ai, ri, totals, runError, report, hist, agencyData, lookup, keyed,
                 agency_metrics, sessions>>

\* existing = session.query(AgencyMetrics).filter_by(name=name).first()
OvQuery(r) ==
  /\ callers[r].pc = "query"
  /\ \E found \in {RowsNamed(agency_metrics, OvScope[callers[r].ai][1])} :
       callers' = [callers EXCEPT ![r].pc = "commit",
                                  ![r].existing = IF found = {} THEN 0
                                                  ELSE (CHOOSE row \in found : TRUE).id]
  /\ UNCHANGED <<envVars, files, probeVars, runVars, agencyData, lookup, keyed,
                 agency_metrics, sessions>>

\* the row is set or added, session.commit(); on an exception the rollback and
\* "continue"; after the last agency the session is closed
OvCommit(r) ==
  /\ callers[r].pc = "commit"
  /\ \E f \in {Flush(agency_metrics,
                      <<[kind |-> IF callers[r].existing = 0 THEN "insert" ELSE "update",
                         id |-> callers[r].existing,
                         name |-> OvScope[callers[r].ai][1],
                         counts |-> callers[r].totals, updated_at |-> now]>>, 1)} :
       agency_metrics' = IF f.ok THEN f.table ELSE agency_metrics
  /\ callers' = [callers EXCEPT
                   ![r].pc = IF callers[r].ai = Len(OvScope) THEN "done" ELSE "count",
                   ![r].ai = IF callers[r].ai = Len(OvScope) THEN 0 ELSE @ + 1,
                   ![r].existing = 0]
  /\ UNCHANGED <<envVars, files, probeVars, runVars, agencyData, lookup, keyed, sessions>>

OvNext ==
  \E r \in Runs :
    \/ OvStart(r)
    \/ OvCheck(r)
    \/ OvOpen(r)
    \/ OvWrite(r)
    \/ OvCount(r)
    \/ OvQuery(r)
    \/ OvCommit(r)

SpecOverlap == DbInit /\ [][OvNext]_vars

\* name, section_count and word_count of the rows of the table
NamedCounts(table) ==
  {[name |-> row.name, section_count |-> row.section_count,
    word_count |-> row.word_count] : row \in table}
\* what one run alone leaves in the table: every agency with the counts of its
\* reference in the issue upstream serves
SingleRunRows ==
  {[name |-> OvScope[k][1],
    section_count |-> CountLive(DocBytes(OvDoc), OvScope[k][2][1]).section_count,
    word_count |-> CountLive(DocBytes(OvDoc), OvScope[k][2][1]).word_count]
   : k \in DOMAIN OvScope}
\* both runs have ended
BothDone == \A r \in Runs : callers[r].pc = "done"

\* C22: two overlapping runs on the same upstream inputs: whatever the
\* interleaving of their sync, cache and persistence steps, the rows in the
\* table when both have ended have the names, section counts and word counts a
\* single run on those inputs leaves.
C22_OverlapSameRows == BothDone => NamedCounts(agency_metrics) = SingleRunRows

====
